---- MODULE Spec2Model ----
(***************************************************************************)
(* A model of the menu-bot core: the ingredient normaliser, the grocery    *)
(* aggregator and store router (src/src/core/grocery_optimizer.py), the    *)
(* quantity renderers, and the recipe ranker and weekly scheduler          *)
(* (src/src/core/meal_planner.py) over the Firestore repository            *)
(* (src/src/integrations/firestore_client.py).                             *)
(*                                                                         *)
(* Conventions.  Python strings are TLA+ strings, handled character by     *)
(* character.  A Python dict is a sequence of <<key, value>> pairs in      *)
(* insertion order.  A quantity is a Python float, held bit for bit (see   *)
(* "Quantities"); a threshold t of the configuration is the integer 32*t.  *)
(* A score s is the integer 40*s.  A calendar date is a day number, day 0  *)
(* being a Monday, so that "%Y-%m-%d" strings compare as the day numbers   *)
(* do.                                                                     *)
(***************************************************************************)
EXTENDS Integers, Sequences, FiniteSets, TLC

VARIABLES
    call,          \* the last call of a side-effect-free method: name, arguments, result
    config,        \* the loaded stores.yaml: [stores, categories]
    meal_plan,     \* the MealPlan handed to generate_grocery_list
    grocery_list,  \* the GroceryList being worked on
    overrides,     \* number of update_item_store calls applied to grocery_list
    today,         \* the current local date of a planner call
    meal_plans,    \* the stored meal plans (collection "meal_plans")
    plan_call,     \* the last generate_weekly_plan call: arguments and results
    recipe_collection, \* the stored recipes (collection "recipes") the handlers read
    grocery_lists, \* the stored grocery lists (collection "grocery_lists")
    messages,      \* the Slack messages that carry action buttons, oldest first
    prefs,         \* the stored Preferences
    event,         \* the last handler run: name, user, what it did
    requests       \* the handler runs in flight: what each has read so far

vars == <<call, config, meal_plan, grocery_list, overrides, today, meal_plans, plan_call,
          recipe_collection, grocery_lists, messages, prefs, event, requests>>

\* What the methods called directly leave alone: the handlers' collections
BotFrame == UNCHANGED <<recipe_collection, grocery_lists, messages, prefs, event, requests>>

\* Python's None; a string, so that it compares with every string value.
None == "<None>"

\* The place of a document that does not exist yet (doc.exists is False)
NoDocument == [exists |-> FALSE]

-----------------------------------------------------------------------------
(* Evaluation order *)

\* Python evaluates an argument before the call: F applied to the value of v.
Call(F(_), v) == CHOOSE r \in { F(a) : a \in {v} } : TRUE

\* A list comprehension builds its list at once: the elements of f, in order.
ListOf(f) == SubSeq(f, 1, Len(f))

-----------------------------------------------------------------------------
(* Strings *)

UpperLetters == "ABCDEFGHIJKLMNOPQRSTUVWXYZ"
LowerLetters == "abcdefghijklmnopqrstuvwxyz"
\* The characters of the model in code-point order.
Alphabet == " -0123456789" \o UpperLetters \o "_" \o LowerLetters

CharAt(s, i) == SubSeq(s, i, i)

\* The place of each character in that order
CodePoints ==
    [c \in { CharAt(Alphabet, i) : i \in 1..Len(Alphabet) } |->
       CHOOSE i \in 1..Len(Alphabet) : CharAt(Alphabet, i) = c]

Ord(c) == CodePoints[c]

\* The lowercase of each uppercase letter
ToLower ==
    [c \in { CharAt(UpperLetters, i) : i \in 1..Len(UpperLetters) } |->
       CharAt(LowerLetters, CHOOSE i \in 1..Len(UpperLetters) : CharAt(UpperLetters, i) = c)]

\* The uppercase of each lowercase letter
ToUpper ==
    [c \in { CharAt(LowerLetters, i) : i \in 1..Len(LowerLetters) } |->
       CharAt(UpperLetters, CHOOSE i \in 1..Len(LowerLetters) : CharAt(LowerLetters, i) = c)]

LowerChar(c) == IF c \in DOMAIN ToLower THEN ToLower[c] ELSE c

UpperChar(c) == IF c \in DOMAIN ToUpper THEN ToUpper[c] ELSE c

RECURSIVE Lower(_)
\* str.lower(): character by character, the string split in halves
Lower(s) ==
    IF Len(s) = 0 THEN ""
    ELSE IF Len(s) = 1 THEN LowerChar(s)
    ELSE Lower(SubSeq(s, 1, Len(s) \div 2)) \o Lower(SubSeq(s, Len(s) \div 2 + 1, Len(s)))

RECURSIVE Upper(_)
\* str.upper()
Upper(s) ==
    IF Len(s) = 0 THEN ""
    ELSE IF Len(s) = 1 THEN UpperChar(s)
    ELSE Upper(SubSeq(s, 1, Len(s) \div 2)) \o Upper(SubSeq(s, Len(s) \div 2 + 1, Len(s)))

\* str.title() on a single word
Capitalized(s) == IF s = "" THEN "" ELSE UpperChar(Head(s)) \o Tail(s)

\* s.lstrip(c): from the first character that is not c
LStripChar(s, c) ==
    IF \A i \in 1..Len(s) : CharAt(s, i) = c THEN ""
    ELSE SubSeq(s, CHOOSE i \in 1..Len(s) :
                       /\ CharAt(s, i) # c
                       /\ \A j \in 1..(i - 1) : CharAt(s, j) = c,
                Len(s))

\* s.rstrip(c): up to the last character that is not c
RStripChar(s, c) ==
    IF \A i \in 1..Len(s) : CharAt(s, i) = c THEN ""
    ELSE SubSeq(s, 1, CHOOSE i \in 1..Len(s) :
                          /\ CharAt(s, i) # c
                          /\ \A j \in (i + 1)..Len(s) : CharAt(s, j) = c)

\* str.strip(): the only whitespace of the model is the space
Strip(s) == RStripChar(LStripChar(s, " "), " ")

\* p in s
Contains(s, p) == \E i \in 1..(Len(s) - Len(p) + 1) : SubSeq(s, i, i + Len(p) - 1) = p

\* s.find(p) (1-based) for a p that occurs in s
Find(s, p) ==
    CHOOSE i \in 1..(Len(s) - Len(p) + 1) :
        /\ SubSeq(s, i, i + Len(p) - 1) = p
        /\ \A j \in 1..(i - 1) : SubSeq(s, j, j + Len(p) - 1) # p

RECURSIVE Replace(_, _, _)
\* s.replace(old, new) for a non-empty old: leftmost, non-overlapping occurrences
Replace(s, old, new) ==
    IF ~Contains(s, old) THEN s
    ELSE SubSeq(s, 1, Find(s, old) - 1) \o new
             \o Replace(SubSeq(s, Find(s, old) + Len(old), Len(s)), old, new)

\* a < b on Python strings (code-point lexicographic order): a is a proper
\* prefix of b, or is smaller at the first position where they differ
StrLess(a, b) ==
    \/ Len(a) < Len(b) /\ SubSeq(b, 1, Len(a)) = a
    \/ \E i \in 1..Len(a) :
          /\ i <= Len(b)
          /\ SubSeq(a, 1, i - 1) = SubSeq(b, 1, i - 1)
          /\ Ord(CharAt(a, i)) < Ord(CharAt(b, i))

-----------------------------------------------------------------------------
(* Dicts *)

DictHas(d, k) == \E i \in 1..Len(d) : d[i][1] = k

\* d.get(k, default)
DictGet(d, k, default) ==
    IF DictHas(d, k) THEN d[CHOOSE i \in 1..Len(d) : d[i][1] = k][2] ELSE default

\* x in list
InList(x, list) == \E i \in 1..Len(list) : list[i] = x

\* Truthiness of an optional string
Truthy(x) == x # None /\ x # ""

-----------------------------------------------------------------------------
(* Quantities: Python floats (IEEE 754 binary64)                            *)
(*                                                                          *)
(* A quantity is a non-negative float that is a multiple of 2^-56 (every    *)
(* float from 1/16 up is) and lies below 2^23.  It is held as the record    *)
(* [units, hi, lo] of the value (units + (hi * 2^26 + lo) / 2^51) / 32, so  *)
(* that units counts whole 32nds and <<hi, lo>> are the 51 bits below.      *)

RECURSIVE Pow2(_)
Pow2(n) == IF n = 0 THEN 1 ELSE 2 * Pow2(n - 1)

LoBase == Pow2(26)

HiBase == Pow2(25)

Double(units, hi, lo) == [units |-> units, hi |-> hi, lo |-> lo]

\* The float of units/32
Float(units) == Double(units, 0, 0)

\* The floats written 0.1, 0.2, 0.3 and 0.7 (0x1.999999999999ap-4,
\* 0x1.999999999999ap-3, 0x1.3333333333333p-2, 0x1.6666666666666p-1)
OneTenth == Double(3, 6710886, 26843546)

TwoTenths == Double(6, 13421772, 53687092)

ThreeTenths == Double(9, 20132659, 13421772)

SevenTenths == Double(22, 13421772, 53687088)

\* quantity == 0
IsZero(quantity) == quantity = Float(0)

\* quantity == int(quantity)
IsIntegral(quantity) == quantity.units % 32 = 0 /\ quantity.hi = 0 /\ quantity.lo = 0

\* quantity >= threshold, the threshold in 32nds
AtLeast(quantity, threshold) == quantity.units >= threshold

\* The number of binary digits of n
BitLength(n) == CHOOSE k \in 0..30 : n < Pow2(k) /\ (k = 0 \/ Pow2(k - 1) <= n)

\* a + b as a real number: no digit is lost below 2^-56
ExactAdd(a, b) ==
    LET lo == a.lo + b.lo
        hi == a.hi + b.hi + lo \div LoBase
    IN Double(a.units + b.units + hi \div HiBase, hi % HiBase, lo % LoBase)

\* The float nearest to x, a tie going to the even significand: x keeps its
\* 53 leading binary digits, the digits of units and 53 minus as many below.
RoundToDouble(x) ==
    LET digits == BitLength(x.units)
    IN IF digits <= 2 THEN x
       ELSE LET last == Pow2(digits - 2)
                kept == x.lo \div last
                rest == x.lo % last
                up == 2 * rest > last \/ (2 * rest = last /\ kept % 2 = 1)
                lo == (IF up THEN kept + 1 ELSE kept) * last
                hi == x.hi + lo \div LoBase
            IN Double(x.units + hi \div HiBase, hi % HiBase, lo % LoBase)

\* a + b on floats
FloatAdd(a, b) == RoundToDouble(ExactAdd(a, b))

\* 10 * quantity as a real number, in the same shape
TimesTen(quantity) ==
    LET lo == 10 * quantity.lo
        hi == 10 * quantity.hi + lo \div LoBase
    IN Double(10 * quantity.units + hi \div HiBase, hi % HiBase, lo % LoBase)

-----------------------------------------------------------------------------
(* Ingredient normaliser *)

modifiers ==
    << "fresh", "dried", "ground", "whole", "chopped", "diced",
       "minced", "sliced", "shredded", "grated", "crushed",
       "large", "medium", "small", "ripe", "raw", "cooked" >>

normalizations ==
    << <<"garlic cloves", "garlic">>,
       <<"cloves garlic", "garlic">>,
       <<"clove garlic", "garlic">>,
       <<"onions", "onion">>,
       <<"tomatoes", "tomato">>,
       <<"potatoes", "potato">>,
       <<"carrots", "carrot">>,
       <<"peppers", "pepper">>,
       <<"eggs", "egg">>,
       <<"lemons", "lemon">>,
       <<"limes", "lime">> >>

RECURSIVE RemoveModifiers(_, _)
\* for mod in modifiers: name = name.replace(f"{mod} ", "")
RemoveModifiers(name, i) ==
    IF i > Len(modifiers) THEN name
    ELSE Call(LAMBDA replaced : RemoveModifiers(replaced, i + 1),
              Replace(name, modifiers[i] \o " ", ""))

RECURSIVE ApplyNormalizations(_, _)
\* for old, new in normalizations.items(): if old in name: name = name.replace(old, new)
ApplyNormalizations(name, i) ==
    IF i > Len(normalizations) THEN name
    ELSE Call(LAMBDA replaced : ApplyNormalizations(replaced, i + 1),
              IF Contains(name, normalizations[i][1])
              THEN Replace(name, normalizations[i][1], normalizations[i][2])
              ELSE name)

_normalize_ingredient_name(name) ==
    Call(Strip,
         Call(LAMBDA stripped : ApplyNormalizations(stripped, 1),
              Call(LAMBDA lowered : RemoveModifiers(lowered, 1), Strip(Lower(name)))))

unit_map ==
    << <<"tablespoon", "tbsp">>,
       <<"tablespoons", "tbsp">>,
       <<"tbsps", "tbsp">>,
       <<"teaspoon", "tsp">>,
       <<"teaspoons", "tsp">>,
       <<"tsps", "tsp">>,
       <<"cups", "cup">>,
       <<"ounce", "oz">>,
       <<"ounces", "oz">>,
       <<"pound", "lb">>,
       <<"pounds", "lb">>,
       <<"lbs", "lb">>,
       <<"clove", "cloves">>,
       <<"piece", "each">>,
       <<"pieces", "each">>,
       <<"", "each">> >>

\* A plausible slip: the table is consulted before the unit is lowercased.
NormalizeUnitCaseSensitive(unit) ==
    LET u == Strip(unit) IN DictGet(unit_map, u, Lower(u))

_normalize_unit(unit) ==
    LET u == Strip(Lower(unit)) IN DictGet(unit_map, u, u)

-----------------------------------------------------------------------------
(* Store and category configuration (config/stores.yaml, loaded once) *)

\* bulk_thresholds of the costco entry: absent, complete, or partial
ThresholdChoices ==
    { << >>,
      << <<"meat_lbs", 96>>, <<"cheese_lbs", 64>>, <<"pantry_items", 160>> >>,
      << <<"cheese_lbs", 16>> >> }

\* the entry of category meat: nothing configured, a preferred store, or both
MeatChoices ==
    { << >>,
      << <<"preferred_store", "meijer">>, <<"items", <<"beef", "chicken">>>> >>,
      << <<"preferred_store", "buschs">>, <<"bulk_store", "buschs">>,
         <<"items", <<"beef", "chicken">>>> >> }

\* the entry of category pantry
PantryChoices ==
    { << <<"items", <<"pasta", "olive oil">>>> >>,
      << <<"preferred_store", "meijer">>, <<"bulk_store", "costco">>,
         <<"items", <<"pasta", "olive oil">>>> >>,
      << <<"preferred_store", "">>, <<"bulk_store", "buschs">>,
         <<"items", <<"pasta", "olive oil">>>> >> }

\* A configuration in the shape GroceryOptimizer.__init__ loads.  costcoFirst
\* moves the costco entry to the front of the stores mapping.
MakeConfig(thresholds, meat, pantry, costcoFirst) ==
    LET costco == <<"costco", << <<"name", "Costco">>,
                                 <<"priority_categories", <<"bread", "seafood">>>>,
                                 <<"bulk_thresholds", thresholds>> >> >>
        others == << <<"trader_joes", << <<"name", "Trader Joe's">>,
                                         <<"priority_categories", <<"produce", "cheese">>>> >> >>,
                     <<"buschs", << <<"name", "Busch's">>,
                                    <<"priority_categories", <<"seafood", "meat", "bread">>>> >> >>,
                     <<"meijer", << <<"name", "Meijer">> >> >> >>
    IN [ stores |-> IF costcoFirst THEN <<costco>> \o others ELSE others \o <<costco>>,
         categories |->
            << <<"produce", << <<"preferred_store", "trader_joes">>,
                               <<"items", <<"tomato", "onion", "garlic">>>> >> >>,
               <<"fresh_herbs", << <<"preferred_store", "trader_joes">>,
                                   <<"items", <<"basil">>>> >> >>,
               <<"meat", meat>>,
               <<"cheese", << <<"preferred_store", "trader_joes">>, <<"bulk_store", "costco">>,
                              <<"items", <<"cheddar", "cheese">>>> >> >>,
               <<"pantry", pantry>> >> ]

Booleans == {TRUE, FALSE}

ConfigSet ==
    { MakeConfig(t, m, p, f) : t \in ThresholdChoices, m \in MeatChoices,
                               p \in PantryChoices, f \in Booleans }

\* A configuration with no costco entry and no store lists at all
BareConfig == [stores |-> << >>, categories |-> << >>]

\* The configuration the repository's tests run against
DefaultConfig ==
    MakeConfig(<< <<"meat_lbs", 64>>, <<"cheese_lbs", 32>>, <<"pantry_items", 96>> >>,
               << <<"preferred_store", "meijer">>, <<"bulk_store", "costco">>,
                  <<"items", <<"beef", "chicken">>>> >>,
               << <<"preferred_store", "meijer">>, <<"bulk_store", "costco">>,
                  <<"items", <<"pasta", "olive oil">>>> >>,
               FALSE)

-----------------------------------------------------------------------------
(* Category inference and store routing *)

RECURSIVE InferFrom(_, _, _)
\* the scan of _infer_category from the i-th category on
InferFrom(categories, name_lower, i) ==
    IF i > Len(categories) THEN "pantry"
    ELSE LET items == DictGet(categories[i][2], "items", << >>)
         IN IF \E j \in 1..Len(items) :
                   \/ Contains(name_lower, Lower(items[j]))
                   \/ Contains(Lower(items[j]), name_lower)
            THEN categories[i][1]
            ELSE InferFrom(categories, name_lower, i + 1)

_infer_category(cfg, ingredient_name) == InferFrom(cfg.categories, Lower(ingredient_name), 1)

\* The first store, in configuration order, that lists the category
FirstPriorityStore(stores, category) ==
    IF \E i \in 1..Len(stores) :
          InList(category, DictGet(stores[i][2], "priority_categories", << >>))
    THEN stores[CHOOSE i \in 1..Len(stores) :
                  /\ InList(category, DictGet(stores[i][2], "priority_categories", << >>))
                  /\ \A j \in 1..(i - 1) :
                        ~InList(category, DictGet(stores[j][2], "priority_categories", << >>))][1]
    ELSE None

\* A plausible slip: the category's preferred store is consulted before the
\* bulk thresholds.
AssignStorePreferredFirst(cfg, name, category, quantity) ==
    LET category_data == DictGet(cfg.categories, category, << >>)
        preferred == DictGet(category_data, "preferred_store", None)
        bulk_store == DictGet(category_data, "bulk_store", None)
        bulk_thresholds == DictGet(DictGet(cfg.stores, "costco", << >>), "bulk_thresholds", << >>)
    IN IF Truthy(preferred) THEN preferred
       ELSE IF category = "meat" /\ AtLeast(quantity, DictGet(bulk_thresholds, "meat_lbs", 64))
       THEN "costco"
       ELSE IF category = "cheese" /\ AtLeast(quantity, DictGet(bulk_thresholds, "cheese_lbs", 32))
       THEN "costco"
       ELSE IF category = "pantry" /\ AtLeast(quantity, DictGet(bulk_thresholds, "pantry_items", 96))
       THEN (IF Truthy(bulk_store) THEN bulk_store ELSE "costco")
       ELSE IF FirstPriorityStore(cfg.stores, category) # None
       THEN FirstPriorityStore(cfg.stores, category)
       ELSE "meijer"

_assign_store(cfg, name, category, quantity) ==
    LET category_data == DictGet(cfg.categories, category, << >>)
        preferred == DictGet(category_data, "preferred_store", None)
        bulk_store == DictGet(category_data, "bulk_store", None)
        costco_config == DictGet(cfg.stores, "costco", << >>)
        bulk_thresholds == DictGet(costco_config, "bulk_thresholds", << >>)
    IN IF category = "meat" /\ AtLeast(quantity, DictGet(bulk_thresholds, "meat_lbs", 64))
       THEN "costco"
       ELSE IF category = "cheese" /\ AtLeast(quantity, DictGet(bulk_thresholds, "cheese_lbs", 32))
       THEN "costco"
       ELSE IF category = "pantry" /\ AtLeast(quantity, DictGet(bulk_thresholds, "pantry_items", 96))
       THEN (IF Truthy(bulk_store) THEN bulk_store ELSE "costco")
       ELSE IF Truthy(preferred) THEN preferred
       ELSE IF FirstPriorityStore(cfg.stores, category) # None
       THEN FirstPriorityStore(cfg.stores, category)
       ELSE "meijer"

-----------------------------------------------------------------------------
(* Aggregation *)

\* aggregated[key] = value on an insertion-ordered dict
DictSet(d, k, v) ==
    IF DictHas(d, k)
    THEN ListOf([i \in 1..Len(d) |-> IF d[i][1] = k THEN <<k, v>> ELSE d[i]])
    ELSE Append(d, <<k, v>>)

\* the defaultdict's factory: lambda: [0, [], "general"]
AggDefault == [qty |-> Float(0), sources |-> << >>, category |-> "general"]

\* A plausible slip: the accumulator is a list of entries, one per ingredient.
AggregateOneAppend(cfg, aggregated, recipe, ingredient) ==
    LET name == _normalize_ingredient_name(ingredient.name)
        unit == _normalize_unit(ingredient.unit)
    IN Append(aggregated,
              << <<name, unit>>,
                 [qty |-> ingredient.quantity, sources |-> <<recipe.name>>,
                  category |-> IF ingredient.category = "general"
                               THEN _infer_category(cfg, name) ELSE ingredient.category] >>)

\* The body of the inner loop of _aggregate_ingredients
AggregateOne(cfg, aggregated, recipe, ingredient) ==
    LET name == _normalize_ingredient_name(ingredient.name)
        unit == _normalize_unit(ingredient.unit)
        key == <<name, unit>>
        cur == DictGet(aggregated, key, AggDefault)
        category == IF ingredient.category = "general"
                    THEN _infer_category(cfg, name) ELSE ingredient.category
    IN DictSet(aggregated, key,
               [qty |-> FloatAdd(cur.qty, ingredient.quantity),
                sources |-> IF InList(recipe.name, cur.sources) THEN cur.sources
                            ELSE Append(cur.sources, recipe.name),
                category |-> category])

RECURSIVE AggregateRecipe(_, _, _, _)
\* for ingredient in recipe.ingredients, from the j-th on
AggregateRecipe(cfg, aggregated, recipe, j) ==
    IF j > Len(recipe.ingredients) THEN aggregated
    ELSE Call(LAMBDA updated : AggregateRecipe(cfg, updated, recipe, j + 1),
              AggregateOne(cfg, aggregated, recipe, recipe.ingredients[j]))

RECURSIVE AggregateFrom(_, _, _, _)
\* for recipe in recipes, from the i-th on
AggregateFrom(cfg, aggregated, recipes, i) ==
    IF i > Len(recipes) THEN aggregated
    ELSE Call(LAMBDA updated : AggregateFrom(cfg, updated, recipes, i + 1),
              AggregateRecipe(cfg, aggregated, recipes[i], 1))

_aggregate_ingredients(cfg, recipes) == AggregateFrom(cfg, << >>, recipes, 1)

-----------------------------------------------------------------------------
(* Sorting: list.sort(key=...) is a stable sort *)

\* The position list.sort gives the i-th element: after every element that is
\* smaller or that is equal and stood before it.
SortedPosition(s, i, Less(_, _)) ==
    1 + Cardinality({ j \in 1..Len(s) :
                        /\ j # i
                        /\ \/ Less(s[j], s[i])
                           \/ ~Less(s[i], s[j]) /\ j < i })

StableSort(s, Less(_, _)) ==
    Call(LAMBDA position : ListOf([k \in 1..Len(s) |->
                                     s[CHOOSE i \in 1..Len(s) : position[i] = k]]),
         ListOf([i \in 1..Len(s) |-> SortedPosition(s, i, Less)]))

store_order == <<"trader_joes", "costco", "buschs", "meijer">>

\* store_order.index(x.store) if x.store in store_order else 99
StoreRank(store) ==
    IF InList(store, store_order)
    THEN (CHOOSE i \in 1..Len(store_order) : store_order[i] = store) - 1
    ELSE 99

\* (category, name) of a before that of b
CategoryNameLess(a, b) ==
    \/ StrLess(a.category, b.category)
    \/ a.category = b.category /\ StrLess(a.name, b.name)

\* (store rank, category, name) of a before that of b
StoreCategoryNameLess(a, b) ==
    \/ StoreRank(a.store) < StoreRank(b.store)
    \/ StoreRank(a.store) = StoreRank(b.store) /\ CategoryNameLess(a, b)

-----------------------------------------------------------------------------
(* The repository: the documents of collection "recipes", in stream order *)

Ing(name, quantity, unit, category) ==
    [name |-> name, quantity |-> quantity, unit |-> unit, category |-> category]

\* kid_friendly_score and health_score are in tenths.
RecipeDocs ==
    << [id |-> "recipe1", name |-> "Spaghetti", approved |-> TRUE,
        ingredients |-> << Ing("pasta", Float(32), "lb", "pantry"),
                           Ing("tomatoes", Float(64), "lb", "produce"),
                           Ing("ground beef", Float(32), "lb", "meat"),
                           Ing("garlic", Float(96), "cloves", "produce"),
                           Ing("parmesan", OneTenth, "lb", "cheese") >>,
        tags |-> <<"kid-friendly">>, seasonal_ingredients |-> <<"Tomatoes">>,
        kid_friendly_score |-> 8, health_score |-> 5],
       [id |-> "recipe2", name |-> "Tacos", approved |-> TRUE,
        ingredients |-> << Ing("ground beef", Float(48), "lb", "meat"),
                           Ing("tortillas", Float(32), "package", "bread"),
                           Ing("cheese", Float(16), "lb", "cheese"),
                           Ing("tomatoes", Float(32), "lb", "produce") >>,
        tags |-> <<"quick", "kid-friendly">>, seasonal_ingredients |-> << >>,
        kid_friendly_score |-> 10, health_score |-> 4],
       [id |-> "recipe3", name |-> "Chili", approved |-> TRUE,
        ingredients |-> << Ing("  Ground Beef  ", Float(32), "LBS", "meat"),
                           Ing("Chopped Onions", Float(64), "", "general"),
                           Ing("Fresh Tomatoes", Float(48), " Pounds", "produce"),
                           Ing("Grated Parmesan", TwoTenths, "pound", "cheese") >>,
        tags |-> << >>, seasonal_ingredients |-> <<"onions", "kale", "squash", "apples">>,
        kid_friendly_score |-> 5, health_score |-> 8],
       [id |-> "recipe4", name |-> "Omelette", approved |-> TRUE,
        ingredients |-> << Ing("Eggs", Float(96), "pieces", "general"),
                           Ing("cheddar cheese", Float(16), "lb", "general"),
                           Ing("garlic", Float(32), "clove", "produce") >>,
        tags |-> <<"quick">>, seasonal_ingredients |-> << >>,
        kid_friendly_score |-> 5, health_score |-> 5],
       [id |-> "recipe5", name |-> "Salad", approved |-> TRUE,
        ingredients |-> << Ing("basil", Float(0), "", "general"),
                           Ing("garlic", Float(36), "each", "produce"),
                           Ing("olive oil", Float(64), "tablespoons", "pantry"),
                           Ing("parmesan", SevenTenths, "lb", "cheese") >>,
        tags |-> <<"healthy">>, seasonal_ingredients |-> <<"kale", "Apples">>,
        kid_friendly_score |-> 0, health_score |-> 10],
       [id |-> "recipe6", name |-> "Roast", approved |-> FALSE,
        ingredients |-> << Ing("chicken", Float(96), "lb", "meat"),
                           Ing("small potatoes", Float(64), "lbs", "produce") >>,
        tags |-> << >>, seasonal_ingredients |-> <<"potatoes">>,
        kid_friendly_score |-> 10, health_score |-> 10] >>

RecipeIds == { RecipeDocs[i].id : i \in 1..Len(RecipeDocs) }

\* An id with no document behind it
MissingRecipeId == "recipe0"

\* get_recipe: the document, or None
get_recipe(recipe_id) ==
    IF \E i \in 1..Len(recipe_collection) : recipe_collection[i].id = recipe_id
    THEN recipe_collection[CHOOSE i \in 1..Len(recipe_collection) :
                              recipe_collection[i].id = recipe_id]
    ELSE None

RECURSIVE get_recipes_by_ids(_)
get_recipes_by_ids(recipe_ids) ==
    IF recipe_ids = << >> THEN << >>
    ELSE (IF \E i \in 1..Len(recipe_collection) : recipe_collection[i].id = Head(recipe_ids)
          THEN <<get_recipe(Head(recipe_ids))>> ELSE << >>)
         \o get_recipes_by_ids(Tail(recipe_ids))

-----------------------------------------------------------------------------
(* Grocery list generation *)

generate_grocery_list(cfg, plan) ==
    LET recipe_ids == ListOf([i \in 1..Len(plan.meals) |-> plan.meals[i].recipe_id])
        recipes == get_recipes_by_ids(recipe_ids)
        aggregated == _aggregate_ingredients(cfg, recipes)
        items == ListOf([i \in 1..Len(aggregated) |->
                    [name |-> aggregated[i][1][1],
                     quantity |-> aggregated[i][2].qty,
                     unit |-> aggregated[i][1][2],
                     store |-> _assign_store(cfg, aggregated[i][1][1],
                                             aggregated[i][2].category, aggregated[i][2].qty),
                     category |-> aggregated[i][2].category,
                     recipe_sources |-> aggregated[i][2].sources,
                     checked |-> FALSE]])
    IN [meal_plan_id |-> plan.id, week_start |-> plan.week_start,
        items |-> Call(LAMBDA unsorted : StableSort(unsorted, StoreCategoryNameLess), items),
        status |-> "pending_approval"]

\* The stores of the items, in order of first appearance (the keys of by_store)
RECURSIVE StoresOf(_, _)
StoresOf(items, seen) ==
    IF items = << >> THEN seen
    ELSE StoresOf(Tail(items),
                  IF InList(Head(items).store, seen) THEN seen
                  ELSE Append(seen, Head(items).store))

\* A plausible slip: the groups are left in list order.
GetListByStoreUnsorted(list) ==
    LET stores == StoresOf(list.items, << >>)
    IN ListOf([k \in 1..Len(stores) |->
                 <<stores[k], SelectSeq(list.items, LAMBDA item : item.store = stores[k])>>])

get_list_by_store(list) ==
    LET stores == StoresOf(list.items, << >>)
    IN ListOf([k \in 1..Len(stores) |->
                 <<stores[k],
                   Call(LAMBDA group : StableSort(group, CategoryNameLess),
                        SelectSeq(list.items, LAMBDA item : item.store = stores[k]))>>])

\* update_item_store: the first item of that name, compared case-insensitively
update_item_store(list, item_name, new_store) ==
    IF \E i \in 1..Len(list.items) : Lower(list.items[i].name) = Lower(item_name)
    THEN LET first == CHOOSE i \in 1..Len(list.items) :
                         /\ Lower(list.items[i].name) = Lower(item_name)
                         /\ \A j \in 1..(i - 1) : Lower(list.items[j].name) # Lower(item_name)
         IN [list EXCEPT !.items[first].store = new_store]
    ELSE list

-----------------------------------------------------------------------------
(* Quantity rendering *)

\* f"{quantity:.1f}" of a non-negative quantity: the nearest tenth, a tie
\* (an exact binary value such as 0.25) going to the even digit
FormatOneDecimal(quantity) ==
    LET n == TimesTen(quantity)
        t == n.units \div 32
        r == n.units % 32
        tenths == IF r < 16 THEN t
                  ELSE IF r > 16 \/ n.hi > 0 \/ n.lo > 0 THEN t + 1
                  ELSE IF t % 2 = 0 THEN t ELSE t + 1
    IN ToString(tenths \div 10) \o "." \o ToString(tenths % 10)

\* A plausible slip: the slack renderer keeps the "each" placeholder.
SlackFormatQuantityKeepsEach(quantity, unit) ==
    IF IsZero(quantity) THEN (IF unit # "" THEN unit ELSE "to taste")
    ELSE LET qty_str == IF IsIntegral(quantity) THEN ToString(quantity.units \div 32)
                        ELSE RStripChar(RStripChar(FormatOneDecimal(quantity), "0"), ".")
         IN IF unit # "" THEN qty_str \o " " \o unit ELSE qty_str

\* slack_utils._format_quantity
slack_format_quantity(quantity, unit) ==
    IF IsZero(quantity) THEN (IF unit # "" THEN unit ELSE "to taste")
    ELSE LET qty_str == IF IsIntegral(quantity) THEN ToString(quantity.units \div 32)
                        ELSE RStripChar(RStripChar(FormatOneDecimal(quantity), "0"), ".")
         IN IF unit # "" /\ unit # "each" THEN qty_str \o " " \o unit ELSE qty_str

\* GroceryOptimizer._format_quantity
_format_quantity(quantity, unit) ==
    IF IsZero(quantity) THEN (IF unit # "" THEN unit ELSE "to taste")
    ELSE LET qty_str == IF IsIntegral(quantity) THEN ToString(quantity.units \div 32)
                        ELSE RStripChar(RStripChar(FormatOneDecimal(quantity), "0"), ".")
         IN IF unit # "" /\ unit # "each" THEN qty_str \o " " \o unit ELSE qty_str

-----------------------------------------------------------------------------
(* Plain-text rendering of a list *)

\* by_store[store_id] of the groups of get_list_by_store; << >> when the
\* store is no key
GroupOf(by_store, store_id) ==
    IF \E k \in 1..Len(by_store) : by_store[k][1] = store_id
    THEN by_store[CHOOSE k \in 1..Len(by_store) : by_store[k][1] = store_id][2]
    ELSE << >>

\* store_names of format_list_text; every store of store_order is a key
store_names ==
    [meijer |-> "Meijer", trader_joes |-> "Trader Joe's",
     costco |-> "Costco", buschs |-> "Busch's"]

\* f"--- {store_name} ({len(items)} items) ---"
HeaderLine(store_id, count) ==
    "--- " \o store_names[store_id] \o " (" \o ToString(count) \o " items) ---"

\* f"{check} {item.name} ({qty_str})"
ItemLine(item) ==
    (IF item.checked THEN "[x]" ELSE "[ ]") \o " " \o item.name
        \o " (" \o _format_quantity(item.quantity, item.unit) \o ")"

\* The lines one pass of the loop over store_order appends
StoreLines(by_store, store_id) ==
    IF \A k \in 1..Len(by_store) : by_store[k][1] # store_id
    THEN << >>
    ELSE LET items == GroupOf(by_store, store_id)
         IN <<HeaderLine(store_id, Len(items))>>
            \o ListOf([i \in 1..Len(items) |-> ItemLine(items[i])])
            \o <<"">>

RECURSIVE LinesOfStores(_, _)
LinesOfStores(by_store, stores) ==
    IF stores = << >> THEN << >>
    ELSE StoreLines(by_store, Head(stores)) \o LinesOfStores(by_store, Tail(stores))

\* A plausible slip: the marker does not follow item.checked.
FormatListTextUnchecked(list) ==
    LET unchecked == [list EXCEPT !.items =
                         ListOf([i \in 1..Len(list.items) |->
                                    [list.items[i] EXCEPT !.checked = FALSE]])]
    IN <<"Grocery List - Week of " \o ToString(unchecked.week_start), "">>
       \o LinesOfStores(get_list_by_store(unchecked), store_order)

\* format_list_text: the lines that "\n".join makes the text of; week_start
\* is rendered as its day number
format_list_text(list) ==
    <<"Grocery List - Week of " \o ToString(list.week_start), "">>
    \o LinesOfStores(get_list_by_store(list), store_order)

\* update_grocery_item_checked on the list: the first item of exactly that name
update_grocery_item_checked(list, item_name, checked) ==
    IF \E i \in 1..Len(list.items) : list.items[i].name = item_name
    THEN LET first == CHOOSE i \in 1..Len(list.items) :
                         /\ list.items[i].name = item_name
                         /\ \A j \in 1..(i - 1) : list.items[j].name # item_name
         IN [list EXCEPT !.items[first].checked = checked]
    ELSE list

-----------------------------------------------------------------------------
(* The season of a date *)

\* season_data.get("months", [])
MonthsOf(season_data) ==
    IF "months" \in DOMAIN season_data THEN season_data.months ELSE << >>

\* A plausible slip: the last season listing the month wins.
RECURSIVE GetCurrentSeasonLastMatch(_, _)
GetCurrentSeasonLastMatch(seasons, date) ==
    IF seasons = << >> THEN "winter"
    ELSE IF InList(date.month, MonthsOf(seasons[Len(seasons)][2]))
         THEN seasons[Len(seasons)][1]
         ELSE GetCurrentSeasonLastMatch(SubSeq(seasons, 1, Len(seasons) - 1), date)

\* get_current_season: seasons is self.seasons, the pairs (season_name,
\* season_data) in the order of the configuration
RECURSIVE get_current_season(_, _)
get_current_season(seasons, date) ==
    IF seasons = << >> THEN "winter"
    ELSE IF InList(date.month, MonthsOf(Head(seasons)[2]))
         THEN Head(seasons)[1]
         ELSE get_current_season(Tail(seasons), date)

\* The table of the tests
SampleSeasons ==
    << <<"spring", [months |-> <<4, 5, 6>>]>>,
       <<"summer", [months |-> <<7, 8, 9>>]>>,
       <<"fall",   [months |-> <<10, 11>>]>>,
       <<"winter", [months |-> <<12, 1, 2, 3>>, notes |-> "Focus on storage vegetables"]>> >>

\* Every month is listed, March, June and September twice
OverlappingSeasons ==
    << <<"spring", [months |-> <<3, 4, 5, 6>>]>>,
       <<"summer", [months |-> <<6, 7, 8, 9>>]>>,
       <<"fall",   [months |-> <<9, 10, 11>>]>>,
       <<"winter", [months |-> <<12, 1, 2, 3>>]>> >>

Reversed(seq) == ListOf([i \in 1..Len(seq) |-> seq[Len(seq) + 1 - i]])

\* The configurations a helper is constructed with: the tested table, tables
\* with overlaps in both orders, tables that leave months out (with and
\* without a season named winter), a season without a month list, no season
SeasonTables ==
    { SampleSeasons,
      Reversed(SampleSeasons),
      OverlappingSeasons,
      Reversed(OverlappingSeasons),
      SubSeq(SampleSeasons, 1, 2),
      SubSeq(OverlappingSeasons, 2, 4),
      << <<"winter", [months |-> <<12, 1, 2>>]>>, <<"summer", [months |-> <<6, 7, 8>>]>> >>,
      << <<"spring", [notes |-> "no months"]>>, <<"summer", [months |-> <<1, 7>>]>> >>,
      << >> }

\* The dates asked about: the first and the last day of every month
SeasonDates == { [year |-> 2024, month |-> m, day |-> d] : m \in 1..12, d \in {1, 28} }

-----------------------------------------------------------------------------
(* Inputs of the helper calls *)

MaxQuantity == 100

MaxHalves == 12

\* Floats that are no multiple of 1/32: decimal fractions as recipes state
\* them (the last are 0.35 and 2.675), and sums of such fractions
\* (0.30000000000000004, 0.9999999999999999 and 1.0)
DecimalQuantities ==
    { OneTenth, TwoTenths, ThreeTenths, SevenTenths,
      Double(11, 6710886, 26843544), Double(85, 20132659, 13421760),
      FloatAdd(OneTenth, TwoTenths),
      FloatAdd(FloatAdd(SevenTenths, TwoTenths), OneTenth),
      FloatAdd(FloatAdd(OneTenth, TwoTenths), SevenTenths) }

Quantities == { Float(n) : n \in 0..MaxQuantity } \cup DecimalQuantities

\* Quantities to route: the multiples of one half, and the decimal fractions
RouteQuantities == { Float(16 * h) : h \in 0..MaxHalves } \cup DecimalQuantities

UnitWords ==
    { unit_map[i][1] : i \in 1..Len(unit_map) } \cup
    { unit_map[i][2] : i \in 1..Len(unit_map) } \cup
    { "package", "can", "g", "fl oz" }

Paddings == {"", " ", "  "}

\* Units as users and extractors write them: any case, padded
RawUnits ==
    { l \o c \o r : l \in Paddings, r \in Paddings,
                    c \in UNION { {w, Upper(w), Capitalized(w)} : w \in UnitWords } }

\* Units as they stand on grocery items
ItemUnits == {"", "each", "lb", "cloves", "fl oz"}

RawNames ==
    { "ground beef", "  ground beef  ", "Ground Beef", "GROUND BEEF ", "beef",
      "Fresh Tomatoes", "garlic cloves", "CHOPPED ONIONS", "extra large eggs",
      "unripe tomato", "whole milk", "2 cloves garlic", "fresh dried basil",
      "ground", "Eggs", "lemons and limes", "" }

RouteCategories == {"produce", "meat", "cheese", "pantry", "bread", "dairy", "unknown"}

RouteConfigs == ConfigSet \cup {BareConfig, DefaultConfig}

Idle == [op |-> "idle"]

-----------------------------------------------------------------------------
(* The helpers, called one at a time (the core is single-threaded) *)

PureFrame == UNCHANGED <<config, meal_plan, grocery_list, overrides,
                         today, meal_plans, plan_call>> /\ BotFrame

NormalizeUnit ==
    /\ call = Idle
    /\ \E unit \in RawUnits :
          call' = [op |-> "_normalize_unit", unit |-> unit, ret |-> _normalize_unit(unit)]
    /\ PureFrame

NormalizeIngredientName ==
    /\ call = Idle
    /\ \E name \in RawNames :
          call' = [op |-> "_normalize_ingredient_name", name |-> name,
                   ret |-> _normalize_ingredient_name(name)]
    /\ PureFrame

FormatQuantity ==
    /\ call = Idle
    /\ \E quantity \in Quantities, unit \in ItemUnits :
          call' = [op |-> "GroceryOptimizer._format_quantity", quantity |-> quantity,
                   unit |-> unit, ret |-> _format_quantity(quantity, unit)]
    /\ PureFrame

SlackFormatQuantity ==
    /\ call = Idle
    /\ \E quantity \in Quantities, unit \in ItemUnits :
          call' = [op |-> "slack_utils._format_quantity", quantity |-> quantity,
                   unit |-> unit, ret |-> slack_format_quantity(quantity, unit)]
    /\ PureFrame

AssignStore ==
    /\ call = Idle
    /\ \E cfg \in RouteConfigs, category \in RouteCategories, quantity \in RouteQuantities :
          call' = [op |-> "_assign_store", cfg |-> cfg, category |-> category,
                   quantity |-> quantity,
                   ret |-> _assign_store(cfg, "item", category, quantity)]
    /\ PureFrame

\* No handler has run: the recipes are stored, no list and no message is
NoBot ==
    /\ recipe_collection = RecipeDocs
    /\ grocery_lists = << >>
    /\ messages = << >>
    /\ prefs = [bootstrap_complete |-> FALSE, planning_channel_id |-> None]
    /\ event = Idle
    /\ requests = << >>

GetCurrentSeason ==
    /\ call = Idle
    /\ \E seasons \in SeasonTables, date \in SeasonDates :
          call' = [op |-> "get_current_season", seasons |-> seasons, date |-> date,
                   ret |-> get_current_season(seasons, date)]
    /\ PureFrame

InitPure ==
    /\ NoBot
    /\ call = Idle
    /\ config = DefaultConfig
    /\ meal_plan = NoDocument
    /\ grocery_list = NoDocument
    /\ overrides = 0
    /\ today = 0
    /\ meal_plans = << >>
    /\ plan_call = Idle

\* The call returns; the next one may start.
ReturnPure ==
    /\ call # Idle
    /\ call' = Idle
    /\ PureFrame

NextPure ==
    \/ ReturnPure
    \/ NormalizeUnit
    \/ NormalizeIngredientName
    \/ FormatQuantity
    \/ SlackFormatQuantity
    \/ AssignStore
    \/ GetCurrentSeason

SpecPure == InitPure /\ [][NextPure]_vars

-----------------------------------------------------------------------------
(* Grocery list operations on one meal plan *)

MaxMeals == 3

MaxOverrides == 1

RECURSIVE SeqsUpTo(_, _)
\* The sequences over S of length at most n
SeqsUpTo(S, n) ==
    IF n = 0 THEN { << >> }
    ELSE LET shorter == SeqsUpTo(S, n - 1)
         IN shorter \cup { Append(s, x) : s \in shorter, x \in S }

day_names == <<"Monday", "Tuesday", "Wednesday", "Thursday", "Friday", "Saturday", "Sunday">>

\* The name stored beside a recipe id in a plan entry
RecipeNameOf(recipe_id) ==
    IF \E i \in 1..Len(recipe_collection) : recipe_collection[i].id = recipe_id
    THEN get_recipe(recipe_id).name ELSE "Deleted"

\* A stored meal plan with one entry per recipe id, day after day
MealPlanOf(id, week_start, recipe_ids, status) ==
    [id |-> id, week_start |-> week_start,
     meals |-> ListOf([i \in 1..Len(recipe_ids) |->
                  [date |-> week_start + i - 1, day_of_week |-> day_names[((i - 1) % 7) + 1],
                   recipe_id |-> recipe_ids[i], recipe_name |-> RecipeNameOf(recipe_ids[i])]]),
     status |-> status]

\* The plan handed to generate_grocery_list: an approved plan of these recipes
PlanOf(recipe_ids) == MealPlanOf("plan1", 0, recipe_ids, "active")

GroceryConfigs == { DefaultConfig, BareConfig }

\* The recipe ids of the plans handed over: recipes sharing ingredients, and
\* the id of a recipe deleted since the plan was made
PlannedRecipeIds == {"recipe1", "recipe2", "recipe3", "recipe5", MissingRecipeId}

\* The stores a user may move an item to; "aldi" is no store of store_order
OverrideStores == {"trader_joes", "aldi"}

\* The item names a user types; an item of that name need not be on the list
OverrideNames == {"Garlic", "BEEF"}

PlannerFrame == UNCHANGED <<today, meal_plans, plan_call>> /\ BotFrame

GenerateGroceryList ==
    /\ call = Idle
    /\ grocery_list = NoDocument
    /\ \E recipe_ids \in SeqsUpTo(PlannedRecipeIds, MaxMeals) :
          /\ meal_plan' = PlanOf(recipe_ids)
          /\ grocery_list' = generate_grocery_list(config, PlanOf(recipe_ids))
    /\ UNCHANGED <<call, config, overrides>>
    /\ PlannerFrame

\* A user moves an item, named in any letter case, to another store.
UpdateItemStore ==
    /\ call = Idle
    /\ grocery_list # NoDocument
    /\ overrides < MaxOverrides
    /\ \E item_name \in OverrideNames, new_store \in OverrideStores :
          grocery_list' = update_item_store(grocery_list, item_name, new_store)
    /\ overrides' = overrides + 1
    /\ UNCHANGED <<call, config, meal_plan>>
    /\ PlannerFrame

GetListByStore ==
    /\ call = Idle
    /\ grocery_list # NoDocument
    /\ call' = [op |-> "get_list_by_store", list |-> grocery_list,
                 ret |-> get_list_by_store(grocery_list)]
    /\ UNCHANGED <<config, meal_plan, grocery_list, overrides>>
    /\ PlannerFrame

\* The names of the items a user ticks off; a list may hold two items
\* named garlic
CheckedNames == {"garlic", "parmesan"}

\* The number of ticked items up to which a further call is followed
MaxTicked == 1

\* A user ticks an item off, or clears the tick.
UpdateGroceryItemChecked ==
    /\ call = Idle
    /\ grocery_list # NoDocument
    /\ Cardinality({ i \in 1..Len(grocery_list.items) : grocery_list.items[i].checked })
          < MaxTicked
    /\ \E item_name \in CheckedNames, checked \in BOOLEAN :
          grocery_list' = update_grocery_item_checked(grocery_list, item_name, checked)
    /\ UNCHANGED <<call, config, meal_plan, overrides>>
    /\ PlannerFrame

FormatListText ==
    /\ call = Idle
    /\ grocery_list # NoDocument
    /\ call' = [op |-> "format_list_text", list |-> grocery_list,
                 ret |-> format_list_text(grocery_list)]
    /\ UNCHANGED <<config, meal_plan, grocery_list, overrides>>
    /\ PlannerFrame

\* The call returns; the list is as it was.
ReturnGrocery ==
    /\ call # Idle
    /\ call' = Idle
    /\ UNCHANGED <<config, meal_plan, grocery_list, overrides>>
    /\ PlannerFrame

InitGrocery ==
    /\ NoBot
    /\ call = Idle
    /\ config \in GroceryConfigs
    /\ meal_plan = NoDocument
    /\ grocery_list = NoDocument
    /\ overrides = 0
    /\ today = 0
    /\ meal_plans = << >>
    /\ plan_call = Idle

NextGrocery ==
    \/ ReturnGrocery
    \/ GenerateGroceryList
    \/ UpdateItemStore
    \/ GetListByStore

SpecGrocery == InitGrocery /\ [][NextGrocery]_vars

\* A list is generated, items are moved and ticked off, and the list is
\* rendered as text.
NextText ==
    \/ ReturnGrocery
    \/ GenerateGroceryList
    \/ UpdateItemStore
    \/ UpdateGroceryItemChecked
    \/ FormatListText

SpecText == InitGrocery /\ [][NextText]_vars

-----------------------------------------------------------------------------------------------------------------------------------------------------
(* Ratings and ranking.  A score s is the integer 40*s. *)

\* get_all_recipes: the documents in stream order, the approved ones on demand
get_all_recipes(approved_only) ==
    SelectSeq(recipe_collection, LAMBDA recipe : ~approved_only \/ recipe.approved)

\* Preferences.meal_repeat_buffer_days as stored by default
meal_repeat_buffer_days == 14

\* A plausible slip: the plan of the cutoff day itself is left out.
GetRecentlyUsedAfterCutoff(plans, utc_today, days) ==
    LET cutoff == utc_today - days
    IN UNION { { plans[p].meals[m].recipe_id : m \in 1..Len(plans[p].meals) } :
                 p \in { q \in 1..Len(plans) : plans[q].week_start > cutoff } }

\* The ids of the meals of the stored plans whose week_start is not before the
\* cutoff, which lies `days` before the current UTC date
get_recently_used_recipes(plans, utc_today, days) ==
    LET cutoff == utc_today - days
    IN UNION { { plans[p].meals[m].recipe_id : m \in 1..Len(plans[p].meals) } :
                 p \in { q \in 1..Len(plans) : plans[q].week_start >= cutoff } }

RECURSIVE SumOf(_)
\* sum(...) of a list of numbers
SumOf(numbers) == IF numbers = << >> THEN 0 ELSE Head(numbers) + SumOf(Tail(numbers))

\* A rating's weight, in halves: 1.5 for a kid, 1.0 for anyone else
RatingWeight(rating) == IF rating.user_type = "kid" THEN 3 ELSE 2

\* The weighted_score get_recipe_scores gives a recipe with these ratings.  The
\* ratings of the model average to multiples of 1/40.
WeightedScore(recipe, ratings) ==
    IF ratings = << >> THEN 12 * recipe.kid_friendly_score
    ELSE LET weighted_sum == SumOf(ListOf([i \in 1..Len(ratings) |->
                                      ratings[i].rating * RatingWeight(ratings[i])]))
             weight_total == SumOf(ListOf([i \in 1..Len(ratings) |->
                                      RatingWeight(ratings[i])]))
         IN (40 * weighted_sum) \div weight_total

\* get_recipe_scores: recipe id -> weighted_score, for the approved recipes
get_recipe_scores(all_ratings) ==
    LET recipes == get_all_recipes(TRUE)
    IN ListOf([i \in 1..Len(recipes) |->
                 <<recipes[i].id,
                   WeightedScore(recipes[i],
                                 SelectSeq(all_ratings,
                                           LAMBDA rating : rating.recipe_id = recipes[i].id))>>])

\* seasonal_bonus after n additions of 0.3, capped at 1.0.  Three additions
\* give 0.8999999999999999 in floating point: a value below 0.9 and above
\* every smaller multiple of 1/40.
SeasonalBonus(n) ==
    IF n = 0 THEN 0
    ELSE IF n = 1 THEN 12
    ELSE IF n = 2 THEN 24
    ELSE IF n = 3 THEN 35
    ELSE 40

\* total_score of one recipe in _rank_recipes
TotalScore(recipe, scores, peak_produce_names, preferred_meal_ids) ==
    LET peak_produce == { Lower(peak_produce_names[i]) : i \in 1..Len(peak_produce_names) }
        base_score == DictGet(scores, recipe.id, 120)
        kid_bonus == 6 * recipe.kid_friendly_score
        health_bonus == 2 * recipe.health_score
        matches == Cardinality({ i \in 1..Len(recipe.seasonal_ingredients) :
                                   Lower(recipe.seasonal_ingredients[i]) \in peak_produce })
        preferred_bonus == IF InList(recipe.id, preferred_meal_ids) THEN 40 ELSE 0
    IN base_score + kid_bonus + health_bonus + SeasonalBonus(matches) + preferred_bonus

\* The order of ranked.sort(key=lambda x: x[1], reverse=True)
ScoreGreater(a, b) == a[2] > b[2]

\* A plausible slip: the recently used recipes are ranked with the others.
RankRecipesKeepsRecent(recipes, scores, recently_used, peak_produce_names, preferred_meal_ids) ==
    Call(LAMBDA ranked : StableSort(ranked, ScoreGreater),
         ListOf([i \in 1..Len(recipes) |->
                   <<recipes[i],
                     TotalScore(recipes[i], scores, peak_produce_names, preferred_meal_ids)>>]))

_rank_recipes(recipes, scores, recently_used, peak_produce_names, preferred_meal_ids) ==
    LET kept == SelectSeq(recipes, LAMBDA recipe : recipe.id \notin recently_used)
    IN Call(LAMBDA ranked : StableSort(ranked, ScoreGreater),
            ListOf([i \in 1..Len(kept) |->
                      <<kept[i],
                        TotalScore(kept[i], scores, peak_produce_names, preferred_meal_ids)>>]))

-----------------------------------------------------------------------------
(* The weekly scheduler *)

\* "return None" of a method that returns a recipe
NoRecipe == [id |-> None]

Min(a, b) == IF a <= b THEN a ELSE b

Max(a, b) == IF a >= b THEN a ELSE b

\* A plausible slip: Friday's pool is not restricted to the tagged recipes.
CandidatesFridayUnrestricted(ranked_recipes, used_this_week, day_name) ==
    LET available == SelectSeq(ranked_recipes, LAMBDA p : p[1].id \notin used_this_week)
    IN IF day_name \in {"Saturday", "Sunday"}
       THEN SubSeq(available, 1, Min(10, Len(available)))
       ELSE IF day_name = "Friday"
            THEN SubSeq(available, 1, Min(5, Len(available)))
            ELSE SubSeq(available, 1, Min(7, Len(available)))

\* A plausible slip: on Friday only tagged recipes are candidates, with no
\* fallback to the rest.
CandidatesFridayTaggedOnly(ranked_recipes, used_this_week, day_name) ==
    LET available == SelectSeq(ranked_recipes, LAMBDA p : p[1].id \notin used_this_week)
        quick_recipes == SelectSeq(available,
                                   LAMBDA p : InList("quick", p[1].tags)
                                              \/ InList("kid-friendly", p[1].tags))
    IN IF day_name \in {"Saturday", "Sunday"}
       THEN SubSeq(available, 1, Min(10, Len(available)))
       ELSE IF day_name = "Friday"
            THEN SubSeq(quick_recipes, 1, Min(5, Len(quick_recipes)))
            ELSE SubSeq(available, 1, Min(7, Len(available)))

\* The candidates _select_recipe draws from: the recipes not used this week,
\* on Friday the quick or kid-friendly ones among them (if any) with 1.0
\* added to their scores, cut to the top 10 (weekend), 5 (Friday) or 7.
Candidates(ranked_recipes, used_this_week, day_name) ==
    LET available == SelectSeq(ranked_recipes, LAMBDA p : p[1].id \notin used_this_week)
        quick == SelectSeq(available,
                           LAMBDA p : InList("quick", p[1].tags)
                                         \/ InList("kid-friendly", p[1].tags))
        quick_recipes == ListOf([i \in 1..Len(quick) |-> <<quick[i][1], quick[i][2] + 40>>])
    IN IF day_name \in {"Saturday", "Sunday"}
       THEN SubSeq(available, 1, Min(10, Len(available)))
       ELSE IF day_name = "Friday"
            THEN IF quick_recipes # << >>
                 THEN SubSeq(quick_recipes, 1, Min(5, Len(quick_recipes)))
                 ELSE SubSeq(available, 1, Min(5, Len(available)))
            ELSE SubSeq(available, 1, Min(7, Len(available)))

\* cumulative after the first i candidates
Cumulative(candidates, i) ==
    SumOf(ListOf([j \in 1..i |-> candidates[j][2]]))

\* Whether some r = random.uniform(0, total_score) makes the loop return the
\* i-th candidate: r <= cumulative there, and r > cumulative at each one before
Drawable(candidates, i) ==
    LET total_score == Cumulative(candidates, Len(candidates))
        lowest == Min(0, total_score)
        highest == Max(0, total_score)
        upper == Min(highest, Cumulative(candidates, i))
    IN /\ lowest <= upper
       /\ \A j \in 1..(i - 1) : Cumulative(candidates, j) < upper

\* Whether some r exceeds every cumulative sum, so that the loop falls through
FallsThrough(candidates) ==
    \A j \in 1..Len(candidates) :
        Cumulative(candidates, j) < Max(0, Cumulative(candidates, Len(candidates)))

\* A plausible slip: the recipes used this week stay among the candidates.
SelectRecipeIgnoresUsed(ranked_recipes, used_this_week, day_name) ==
    LET candidates == Candidates(ranked_recipes, {}, day_name)
    IN IF candidates = << >> THEN { NoRecipe }
       ELSE { candidates[i][1] : i \in 1..Len(candidates) }

\* _select_recipe: the recipes it may return, over the outcomes of random
_select_recipe(ranked_recipes, used_this_week, day_name) ==
    LET candidates == Candidates(ranked_recipes, used_this_week, day_name)
    IN IF candidates = << >> THEN { NoRecipe }
       ELSE IF Len(candidates) = 1 THEN { candidates[1][1] }
       ELSE IF Cumulative(candidates, Len(candidates)) = 0
       THEN { candidates[i][1] : i \in 1..Len(candidates) }
       ELSE { candidates[i][1] : i \in { k \in 1..Len(candidates) : Drawable(candidates, k) } }
               \cup (IF FallsThrough(candidates)
                     THEN { candidates[Len(candidates)][1] } ELSE {})

\* A plausible slip: on a Monday the week starts today.
NextMondayOrToday(now) == now + ((7 - (now % 7)) % 7)

\* today + days_until_monday: the Monday after today
NextMonday(now) ==
    LET days_until_monday == (7 - (now % 7)) % 7
    IN now + (IF days_until_monday = 0 THEN 7 ELSE days_until_monday)

RECURSIVE SelectMeals(_, _, _, _, _, _)
\* The loop over range(num_days) from day i on: the lists of entries it may end with
SelectMeals(ranked_recipes, used_this_week, meals, i, num_days, week_start) ==
    IF i >= num_days THEN { meals }
    ELSE LET day_name == day_names[(i % 7) + 1]
         IN UNION { IF recipe = NoRecipe
                    THEN SelectMeals(ranked_recipes, used_this_week, meals,
                                     i + 1, num_days, week_start)
                    ELSE SelectMeals(ranked_recipes, used_this_week \cup {recipe.id},
                                     Append(meals, [date |-> week_start + i,
                                                    day_of_week |-> day_name,
                                                    recipe_id |-> recipe.id,
                                                    recipe_name |-> recipe.name]),
                                     i + 1, num_days, week_start) :
                    recipe \in _select_recipe(ranked_recipes, used_this_week, day_name) }

-----------------------------------------------------------------------------
(* Weekly planning over the stored plans *)

MaxDays == 2

MaxStored == 1

\* The local dates of a call: one for each day of the week
Todays == 21..27

\* The plans found in collection "meal_plans": weeks begun 15, 14 and 3 days
\* ago, and the week beginning in 7 days
StoredPlans(now) ==
    { MealPlanOf("plan_a", now - 15, <<"recipe2", "recipe3">>, "completed"),
      MealPlanOf("plan_b", now - 14, <<"recipe1">>, "completed"),
      MealPlanOf("plan_c", now - 3, <<"recipe2">>, "active"),
      MealPlanOf("plan_d", now + 7, <<"recipe4", "recipe1">>, "pending_approval") }

\* datetime.utcnow() is on the local date, the day before or the day after
UtcShifts == {-1, 0, 1}

\* week_start as passed: omitted, ten days ago, the day after tomorrow
WeekStartArgs(now) ==
    { [given |-> FALSE, date |-> 0],
      [given |-> TRUE, date |-> now - 10],
      [given |-> TRUE, date |-> now + 2] }

Rating(recipe_id, user_type, rating) ==
    [recipe_id |-> recipe_id, user_type |-> user_type, rating |-> rating]

\* What a call reads beside the plans: the ratings, the produce at its peak in
\* the month of week_start, and the preferred meals
PlanningContexts ==
    { [ratings |-> << >>, peak_produce_names |-> << >>, preferred_meal_ids |-> << >>],
      [ratings |-> << Rating("recipe3", "kid", 5), Rating("recipe3", "adult", 2),
                      Rating("recipe5", "kid", 4) >>,
       peak_produce_names |-> <<"Tomatoes", "Kale", "Apples", "Onions", "Winter Squash">>,
       preferred_meal_ids |-> <<"recipe5", "recipe6">>] }

GroceryFrame == UNCHANGED <<call, config, meal_plan, grocery_list, overrides>> /\ BotFrame

GenerateWeeklyPlan ==
    /\ plan_call = Idle
    /\ get_all_recipes(TRUE) # << >>
    /\ \E week_start_arg \in WeekStartArgs(today), num_days \in 0..MaxDays,
          utc_shift \in UtcShifts, context \in PlanningContexts :
          \E week_start \in { IF week_start_arg.given THEN week_start_arg.date
                              ELSE NextMonday(today) },
             recently_used \in { get_recently_used_recipes(meal_plans, today + utc_shift,
                                                            meal_repeat_buffer_days) },
             scores \in { get_recipe_scores(context.ratings) } :
             \E ranked_recipes \in { _rank_recipes(get_all_recipes(TRUE),
                                                    scores,
                                                    recently_used,
                                                    context.peak_produce_names,
                                                    context.preferred_meal_ids) } :
                \E meals \in SelectMeals(ranked_recipes, {}, << >>, 0, num_days, week_start) :
                   plan_call' = [op |-> "generate_weekly_plan",
                                 week_start_given |-> week_start_arg.given,
                                 num_days |-> num_days,
                                 utc_today |-> today + utc_shift,
                                 context |-> context,
                                 recently_used |-> recently_used,
                                 scores |-> scores,
                                 ranked_recipes |-> ranked_recipes,
                                 ret |-> [id |-> None, week_start |-> week_start,
                                          meals |-> meals, status |-> "pending_approval"]]
    /\ UNCHANGED <<today, meal_plans>>
    /\ GroceryFrame

\* The call returns; nothing was stored.
ReturnPlanner ==
    /\ plan_call # Idle
    /\ plan_call' = Idle
    /\ UNCHANGED <<today, meal_plans>>
    /\ GroceryFrame

InitPlanner ==
    /\ NoBot
    /\ call = Idle
    /\ config = DefaultConfig
    /\ meal_plan = NoDocument
    /\ grocery_list = NoDocument
    /\ overrides = 0
    /\ today \in Todays
    /\ meal_plans \in SeqsUpTo(StoredPlans(today), MaxStored)
    /\ plan_call = Idle

NextPlanner ==
    \/ ReturnPlanner
    \/ GenerateWeeklyPlan

SpecPlanner == InitPlanner /\ [][NextPlanner]_vars

-----------------------------------------------------------------------------
(* _select_recipe, called on ranked lists of any length *)

MaxRanked == 12

\* The tags of the i-th recipe of a ranked list: none tagged; the third
\* "quick" and the eighth "kid-friendly"; all "quick"
TagPatterns ==
    { [i \in 1..(MaxRanked + 1) |-> << >>],
      [i \in 1..(MaxRanked + 1) |-> IF i = 3 THEN <<"quick", "dinner">>
                                    ELSE IF i = 8 THEN <<"kid-friendly">>
                                    ELSE <<"dinner">>],
      [i \in 1..(MaxRanked + 1) |-> <<"quick">>] }

\* The scores down a ranked list: falling by 0.5 from one recipe to the next,
\* or all 0
ScorePatterns ==
    { [i \in 1..(MaxRanked + 1) |-> 20 * (MaxRanked + 2 - i)],
      [i \in 1..(MaxRanked + 1) |-> 0] }

\* A ranked list of n recipes as _rank_recipes returns it
RankedList(n, tags, scores) ==
    ListOf([i \in 1..n |->
              << [id |-> "r" \o ToString(i), name |-> "Recipe " \o ToString(i),
                  tags |-> tags[i]],
                 scores[i] >>])

\* used_this_week: nothing, the top recipe, the two tagged ones, the top ten
UsedSets ==
    { {}, {"r1"}, {"r3", "r8"}, { "r" \o ToString(i) : i \in 1..10 } }

SelectRecipe ==
    /\ call = Idle
    /\ \E n \in 0..MaxRanked, tags \in TagPatterns, scores \in ScorePatterns,
          used_this_week \in UsedSets, d \in 1..7 :
          \E ranked_recipes \in { RankedList(n, tags, scores) } :
             \E recipe \in _select_recipe(ranked_recipes, used_this_week, day_names[d]) :
                call' = [op |-> "_select_recipe", ranked_recipes |-> ranked_recipes,
                         used_this_week |-> used_this_week, day_name |-> day_names[d],
                         candidates |-> Candidates(ranked_recipes, used_this_week,
                                                   day_names[d]),
                         ret |-> recipe]
    /\ PureFrame

NextSelect ==
    \/ ReturnPure
    \/ SelectRecipe

SpecSelect == InitPure /\ [][NextSelect]_vars

-----------------------------------------------------------------------------
(* regenerate_meal: one day of a plan drawn again *)

\* The recipe ids of the plan's entries
UsedIds(plan) == { plan.meals[i].recipe_id : i \in 1..Len(plan.meals) }

\* The position of the first entry labelled day_to_replace, 0 when there is
\* none (meal_index is None)
MealIndex(plan, day_to_replace) ==
    LET found == { i \in 1..Len(plan.meals) : plan.meals[i].day_of_week = day_to_replace }
    IN IF found = {} THEN 0 ELSE CHOOSE i \in found : \A j \in found : i <= j

\* A plausible slip: the recently used ids are left out of excluded.
ExcludedForPlanOnly(plan, recently_used, meal_index) ==
    UsedIds(plan) \ { plan.meals[meal_index].recipe_id }

\* excluded after the loop has found the entry: the ids of the plan and the
\* recently used ids, without the id of the entry being replaced
ExcludedFor(plan, recently_used, meal_index) ==
    (UsedIds(plan) \cup recently_used) \ { plan.meals[meal_index].recipe_id }

\* A plausible slip: the new entry is appended and the old one stays.
ReplaceEntryAppends(plan, meal_index, day_to_replace, new_recipe) ==
    [plan EXCEPT !.meals = Append(@,
        [date |-> plan.meals[meal_index].date,
         day_of_week |-> day_to_replace,
         recipe_id |-> new_recipe.id,
         recipe_name |-> new_recipe.name])]

\* meal_plan.meals[meal_index] = MealPlanEntry(...)
ReplaceEntry(plan, meal_index, day_to_replace, new_recipe) ==
    [plan EXCEPT !.meals[meal_index] =
        [date |-> plan.meals[meal_index].date,
         day_of_week |-> day_to_replace,
         recipe_id |-> new_recipe.id,
         recipe_name |-> new_recipe.name]]

\* The plans regenerate_meal is handed besides the stored ones: a draft that
\* uses every approved recipe, a plan of eight days (two Mondays), a plan
\* of an unapproved and a deleted recipe, and a plan without entries
OtherPlans(now) ==
    { MealPlanOf("plan_e", now + 7, <<"recipe1", "recipe2", "recipe3", "recipe4", "recipe5">>,
                 "draft"),
      MealPlanOf("plan_f", now + 7, <<"recipe1", "recipe2", "recipe3", "recipe1",
                                      "recipe2", "recipe3", "recipe1", "recipe2">>,
                 "pending_approval"),
      MealPlanOf("plan_g", now, <<"recipe6", MissingRecipeId>>, "active"),
      MealPlanOf("plan_h", now + 7, << >>, "pending_approval") }

\* day_to_replace: a day name, or a label no entry carries
DayLabels == { day_names[d] : d \in 1..7 } \cup { "monday" }

\* One call regenerate_meal(plan, day_to_replace); calls counts the calls made
\* on the plan, this one included
RegenerateMealOf(plan, day_to_replace, calls) ==
    \E utc_shift \in UtcShifts, context \in PlanningContexts :
          \E used_ids \in { UsedIds(plan) },
             recently_used \in { get_recently_used_recipes(meal_plans, today + utc_shift,
                                                            meal_repeat_buffer_days) },
             meal_index \in { MealIndex(plan, day_to_replace) } :
             IF meal_index = 0
             THEN plan_call' = [op |-> "regenerate_meal", meal_plan |-> plan,
                                day_to_replace |-> day_to_replace, meal_index |-> 0,
                                used_ids |-> used_ids, recently_used |-> recently_used,
                                excluded |-> used_ids \cup recently_used,
                                ranked |-> << >>, new_recipe |-> NoRecipe, ret |-> plan,
                                calls |-> calls]
             ELSE \E excluded \in { ExcludedFor(plan, recently_used, meal_index) } :
                     \E ranked \in { _rank_recipes(get_all_recipes(TRUE),
                                                   get_recipe_scores(context.ratings),
                                                   excluded,
                                                   context.peak_produce_names,
                                                   context.preferred_meal_ids) } :
                        \E new_recipe \in _select_recipe(ranked, used_ids, day_to_replace) :
                           plan_call' = [op |-> "regenerate_meal", meal_plan |-> plan,
                                         day_to_replace |-> day_to_replace,
                                         meal_index |-> meal_index,
                                         used_ids |-> used_ids,
                                         recently_used |-> recently_used,
                                         excluded |-> excluded,
                                         ranked |-> ranked, new_recipe |-> new_recipe,
                                         ret |-> IF new_recipe = NoRecipe THEN plan
                                                 ELSE ReplaceEntry(plan, meal_index,
                                                                   day_to_replace, new_recipe),
                                         calls |-> calls]

RegenerateMeal ==
    /\ plan_call = Idle
    /\ \E plan \in StoredPlans(today) \cup OtherPlans(today), day_to_replace \in DayLabels :
          RegenerateMealOf(plan, day_to_replace, 1)
    /\ UNCHANGED <<today, meal_plans>>
    /\ GroceryFrame

NextRegenerate ==
    \/ ReturnPlanner
    \/ GenerateWeeklyPlan
    \/ RegenerateMeal

SpecRegenerate == InitPlanner /\ [][NextRegenerate]_vars

-----------------------------------------------------------------------------
(* regenerate_meal, called again and again on the plan it returned *)

MaxCalls == 2

\* The day names of the entries of a plan
LabelsOf(plan) == { plan.meals[i].day_of_week : i \in 1..Len(plan.meals) }

\* The caller passes the plan of the last call, from generate_weekly_plan or
\* from regenerate_meal, to regenerate_meal, with the day of one of its
\* entries or with Sunday.
RegenerateReturned ==
    /\ plan_call.op \in {"generate_weekly_plan", "regenerate_meal"}
    /\ \E calls \in { IF plan_call.op = "regenerate_meal" THEN plan_call.calls + 1 ELSE 1 },
          day_to_replace \in LabelsOf(plan_call.ret) \cup {"Sunday"} :
          /\ calls <= MaxCalls
          /\ RegenerateMealOf(plan_call.ret, day_to_replace, calls)
    /\ UNCHANGED <<today, meal_plans>>
    /\ GroceryFrame

\* The calls are made on a Monday or on a Friday.
SequenceTodays == {21, 25}

InitSequence ==
    /\ InitPlanner
    /\ today \in SequenceTodays

NextSequence ==
    \/ ReturnPlanner
    \/ GenerateWeeklyPlan
    \/ RegenerateReturned

SpecSequence == InitSequence /\ [][NextSequence]_vars

-----------------------------------------------------------------------------
(* generate_weekly_plan for more days than there are recipes to choose from *)

MaxWeekDays == 8

\* What collection "meal_plans" holds: nothing, or one plan of the current
\* week that leaves 4, 2, 1 or none of the approved recipes eligible
RecentPlans(now) ==
    { << >>,
      << MealPlanOf("plan_c", now - 3, <<"recipe2">>, "active") >>,
      << MealPlanOf("plan_c", now - 3, <<"recipe2", "recipe4", "recipe5">>, "active") >>,
      << MealPlanOf("plan_c", now - 3, <<"recipe1", "recipe2", "recipe3", "recipe4">>,
                    "active") >>,
      << MealPlanOf("plan_c", now - 3, <<"recipe1", "recipe2", "recipe3", "recipe4",
                                         "recipe5">>, "active") >> }

GenerateWeek ==
    /\ plan_call = Idle
    /\ get_all_recipes(TRUE) # << >>
    /\ \E week_start_arg \in WeekStartArgs(today), num_days \in 0..MaxWeekDays,
          context \in PlanningContexts :
          \E week_start \in { IF week_start_arg.given THEN week_start_arg.date
                              ELSE NextMonday(today) },
             recently_used \in { get_recently_used_recipes(meal_plans, today,
                                                            meal_repeat_buffer_days) },
             scores \in { get_recipe_scores(context.ratings) } :
             \E ranked_recipes \in { _rank_recipes(get_all_recipes(TRUE),
                                                    scores,
                                                    recently_used,
                                                    context.peak_produce_names,
                                                    context.preferred_meal_ids) } :
                \E meals \in SelectMeals(ranked_recipes, {}, << >>, 0, num_days, week_start) :
                   plan_call' = [op |-> "generate_weekly_plan",
                                 week_start_given |-> week_start_arg.given,
                                 num_days |-> num_days,
                                 utc_today |-> today,
                                 context |-> context,
                                 recently_used |-> recently_used,
                                 scores |-> scores,
                                 ranked_recipes |-> ranked_recipes,
                                 ret |-> [id |-> None, week_start |-> week_start,
                                          meals |-> meals, status |-> "pending_approval"]]
    /\ UNCHANGED <<today, meal_plans>>
    /\ GroceryFrame

InitWeek ==
    /\ NoBot
    /\ call = Idle
    /\ config = DefaultConfig
    /\ meal_plan = NoDocument
    /\ grocery_list = NoDocument
    /\ overrides = 0
    /\ today \in Todays
    /\ meal_plans \in RecentPlans(today)
    /\ plan_call = Idle

NextWeek ==
    \/ ReturnPlanner
    \/ GenerateWeek

SpecWeek == InitWeek /\ [][NextWeek]_vars

-----------------------------------------------------------------------------
(* The Slack handlers and the scheduled functions over the stored documents *)

MaxExtraRecipes == 2

MaxPlans == 3

MaxLists == 1

MaxMessages == 2

\* Collection "family_members"
FamilyMembers ==
    << [slack_user_id |-> "U_MOM", user_type |-> "adult", is_parent |-> TRUE,
        google_tasks_linked |-> TRUE],
       [slack_user_id |-> "U_KID", user_type |-> "kid", is_parent |-> FALSE,
        google_tasks_linked |-> TRUE] >>

\* The user ids of incoming requests: a parent, a kid, somebody who is no
\* family member, and a request without a user id
UserIds == {"U_MOM", "U_KID", "U_GUEST", None}

get_family_member(slack_user_id) ==
    IF \E i \in 1..Len(FamilyMembers) : FamilyMembers[i].slack_user_id = slack_user_id
    THEN FamilyMembers[CHOOSE i \in 1..Len(FamilyMembers) :
                          FamilyMembers[i].slack_user_id = slack_user_id]
    ELSE NoDocument

\* A plausible slip: every family member counts as a parent.
IsParentAnyMember(slack_user_id) ==
    get_family_member(slack_user_id) # NoDocument

is_parent(slack_user_id) ==
    LET member == get_family_member(slack_user_id)
    IN member # NoDocument /\ member.is_parent

\* require_parent and require_parent_for_command let the handler run
RequireParent(user_id) == user_id # None /\ is_parent(user_id)

\* An approved recipe added to the six of RecipeDocs
ExtraRecipe(n) ==
    [id |-> "recipe" \o ToString(n), name |-> "Extra " \o ToString(n), approved |-> TRUE,
     ingredients |-> << Ing("rice", Float(32), "cups", "pantry") >>,
     tags |-> << >>, seasonal_ingredients |-> << >>,
     kid_friendly_score |-> 5, health_score |-> 5]

\* What collection "recipes" may hold: no approved recipe, or 5 and more
RecipeCollections ==
    { << RecipeDocs[6] >> }
    \cup { RecipeDocs \o ListOf([i \in 1..n |-> ExtraRecipe(6 + i)]) :
           n \in 0..MaxExtraRecipes }

\* A MealPlan as stored, with the fields the handlers write
PlanDocument(plan, feedback_collected, approved_by) ==
    [id |-> plan.id, week_start |-> plan.week_start, meals |-> plan.meals,
     status |-> plan.status, feedback_collected |-> feedback_collected,
     approved_by |-> approved_by]

\* What collection "meal_plans" holds at first: the completed plan of last
\* week and the plan of this week, awaiting approval or approved by a parent
FirstPlans(now) ==
    { << PlanDocument(MealPlanOf("plan1", now - 10,
                                 <<"recipe1", "recipe2", "recipe3", "recipe4">>,
                                 "completed"), TRUE, "U_MOM"),
         PlanDocument(MealPlanOf("plan2", now - 3, <<"recipe5">>,
                                 "pending_approval"), FALSE, None) >>,
      << PlanDocument(MealPlanOf("plan1", now - 10,
                                 <<"recipe1", "recipe2", "recipe3", "recipe4">>,
                                 "completed"), TRUE, "U_MOM"),
         PlanDocument(MealPlanOf("plan2", now - 3, <<"recipe5">>,
                                 "active"), FALSE, "U_MOM") >> }

\* The stored Preferences: configured with a channel, without one, or not at all
PreferenceChoices ==
    { [bootstrap_complete |-> TRUE, planning_channel_id |-> "C_PLANNING"],
      [bootstrap_complete |-> TRUE, planning_channel_id |-> None],
      [bootstrap_complete |-> FALSE, planning_channel_id |-> None] }

\* A message whose buttons act on a plan or a list
PlanMessage(plan_id) ==
    [kind |-> "meal_plan", id |-> plan_id, rendered |-> "pending_approval"]

\* rendered: the status of the list when the message was written, which
\* decides its buttons (Approve and Edit Items, or Send to Google Tasks)
ListMessage(list_id, status) == [kind |-> "grocery_list", id |-> list_id, rendered |-> status]

\* A message is posted; of the messages with buttons, the oldest is out of
\* reach once there are more than MaxMessages
Post(message) ==
    IF Len(messages) < MaxMessages THEN Append(messages, message)
    ELSE Append(Tail(messages), message)

\* The message at position m is rewritten without buttons
WithoutMessage(m) ==
    SubSeq(messages, 1, m - 1) \o SubSeq(messages, m + 1, Len(messages))

\* The position of the document with this id in a collection, 0 when absent
DocumentIndex(collection, id) ==
    LET found == { i \in 1..Len(collection) : collection[i].id = id }
    IN IF found = {} THEN 0 ELSE CHOOSE i \in found : TRUE

\* The position of the first document with this status, 0 when there is none
FirstWithStatus(collection, status) ==
    LET found == { i \in 1..Len(collection) : collection[i].status = status }
    IN IF found = {} THEN 0 ELSE CHOOSE i \in found : \A j \in found : i <= j

\* The id Firestore gives to an added document
NewId(prefix, collection) == prefix \o ToString(Len(collection) + 1)

\* planner.generate_weekly_plan() as the handlers call it: the week from
\* next Monday, seven days, over the stored recipes and plans
WeeklyPlans ==
    LET week_start == NextMonday(today)
        recently_used == get_recently_used_recipes(meal_plans, today,
                                                   meal_repeat_buffer_days)
        ranked_recipes == _rank_recipes(get_all_recipes(TRUE), get_recipe_scores(<< >>),
                                        recently_used, << >>, << >>)
    IN { PlanDocument([id |-> None, week_start |-> week_start, meals |-> meals,
                       status |-> "pending_approval"], FALSE, None) :
         meals \in SelectMeals(ranked_recipes, {}, << >>, 0, 7, week_start) }

\* planner.regenerate_meal(plan, day_to_swap) as the swap handler calls it
RegeneratedPlans(plan, day_to_replace) ==
    LET used_ids == UsedIds(plan)
        recently_used == get_recently_used_recipes(meal_plans, today,
                                                   meal_repeat_buffer_days)
        meal_index == MealIndex(plan, day_to_replace)
    IN IF meal_index = 0 THEN { plan }
       ELSE LET ranked == _rank_recipes(get_all_recipes(TRUE), get_recipe_scores(<< >>),
                                        ExcludedFor(plan, recently_used, meal_index),
                                        << >>, << >>)
            IN { IF new_recipe = NoRecipe THEN plan
                 ELSE ReplaceEntry(plan, meal_index, day_to_replace, new_recipe) :
                 new_recipe \in _select_recipe(ranked, used_ids, day_to_replace) }

\* db.save_meal_plan of a plan without id: the collection afterwards
AddPlan(plan) == Append(meal_plans, [plan EXCEPT !.id = NewId("plan", meal_plans)])

\* What a handler leaves behind in event: its name and the user it checked
\* (None when it checks nobody)
Handled(op, user_id) == [op |-> op, user_id |-> user_id]

\* What no handler touches
HandlerFrame ==
    UNCHANGED <<call, config, meal_plan, grocery_list, overrides, today, plan_call,
                recipe_collection, prefs, requests>>

\* db.approve_meal_plan(plan_id, approved_by): the collection afterwards
approve_meal_plan(plan_id, approved_by) ==
    LET i == DocumentIndex(meal_plans, plan_id)
    IN [meal_plans EXCEPT ![i].status = "active", ![i].approved_by = approved_by]

\* db.approve_grocery_list(list_id, approved_by): the collection afterwards
approve_grocery_list(list_id, approved_by) ==
    LET i == DocumentIndex(grocery_lists, list_id)
    IN [grocery_lists EXCEPT ![i].status = "approved", ![i].approved_by = approved_by]

\* "/menu-plan new": _generate_new_plan
GenerateNewPlan ==
    /\ event' = Handled("_generate_new_plan", None)
    /\ IF Len(get_all_recipes(TRUE)) < 7
       THEN UNCHANGED <<meal_plans, messages>>
       ELSE /\ Len(meal_plans) < MaxPlans
            /\ \E plan \in WeeklyPlans, explained \in BOOLEAN :
                  /\ meal_plans' = AddPlan(plan)
                  /\ messages' = IF explained
                                 THEN Post(PlanMessage(NewId("plan", meal_plans)))
                                 ELSE messages
    /\ UNCHANGED grocery_lists
    /\ HandlerFrame

\* "/menu-plan pending": _show_pending_plan
ShowPendingPlan ==
    /\ event' = Handled("_show_pending_plan", None)
    /\ \E i \in { FirstWithStatus(meal_plans, "pending_approval") } :
          messages' = IF i = 0 THEN messages ELSE Post(PlanMessage(meal_plans[i].id))
    /\ UNCHANGED <<meal_plans, grocery_lists>>
    /\ HandlerFrame

\* Button "Approve" of a plan message: handle_approve_plan under require_parent
HandleApprovePlan ==
    \E user_id \in UserIds, m \in 1..Len(messages) :
       /\ messages[m].kind = "meal_plan"
       /\ event' = Handled("handle_approve_plan", user_id)
       /\ IF RequireParent(user_id)
          THEN /\ meal_plans' = approve_meal_plan(messages[m].id, user_id)
               /\ messages' = WithoutMessage(m)
          ELSE UNCHANGED <<meal_plans, messages>>
       /\ UNCHANGED grocery_lists
       /\ HandlerFrame

\* Button "Regenerate" of a plan message: handle_regenerate_plan
HandleRegeneratePlan ==
    \E m \in 1..Len(messages) :
       /\ messages[m].kind = "meal_plan"
       /\ event' = Handled("handle_regenerate_plan", None)
       /\ IF get_all_recipes(TRUE) = << >>
          THEN UNCHANGED <<meal_plans, messages>>
          ELSE /\ Len(meal_plans) < MaxPlans
               /\ \E plan \in WeeklyPlans, explained \in BOOLEAN :
                     /\ meal_plans' = AddPlan(plan)
                     /\ messages' = IF explained
                                    THEN [messages EXCEPT ![m] =
                                             PlanMessage(NewId("plan", meal_plans))]
                                    ELSE messages
       /\ UNCHANGED grocery_lists
       /\ HandlerFrame

\* Button "Swap Meals" of a plan message and the modal it opens:
\* handle_swap_meals, then handle_swap_submission
HandleSwapSubmission ==
    \E m \in 1..Len(messages) :
       /\ messages[m].kind = "meal_plan"
       /\ event' = Handled("handle_swap_submission", None)
       /\ \E i \in { DocumentIndex(meal_plans, messages[m].id) } :
             /\ i # 0
             /\ \E d \in 1..Len(meal_plans[i].meals) :
                   \E updated_plan \in RegeneratedPlans(meal_plans[i],
                                                        meal_plans[i].meals[d].day_of_week) :
                      /\ meal_plans' = [meal_plans EXCEPT ![i] = updated_plan]
                      /\ messages' = IF /\ prefs.planning_channel_id # None
                                        /\ updated_plan.status = "pending_approval"
                                     THEN Post(PlanMessage(updated_plan.id))
                                     ELSE messages
       /\ UNCHANGED grocery_lists
       /\ HandlerFrame

\* "/menu-approve-plan": handle_approve_command under require_parent_for_command
HandleApproveCommand ==
    \E user_id \in UserIds :
       /\ event' = Handled("handle_approve_command", user_id)
       /\ \E i \in { FirstWithStatus(meal_plans, "pending_approval") } :
             meal_plans' = IF RequireParent(user_id) /\ i # 0
                           THEN approve_meal_plan(meal_plans[i].id, user_id)
                           ELSE meal_plans
       /\ UNCHANGED <<grocery_lists, messages>>
       /\ HandlerFrame

\* The scheduled weekly_feedback_summary: the active plan is completed once
\* the summary is posted
WeeklyFeedbackSummary ==
    /\ event' = Handled("weekly_feedback_summary", None)
    /\ \E i \in { FirstWithStatus(meal_plans, "active") }, posted \in BOOLEAN :
          meal_plans' = IF /\ prefs.bootstrap_complete
                           /\ prefs.planning_channel_id # None
                           /\ i # 0
                           /\ posted
                        THEN [meal_plans EXCEPT ![i].status = "completed",
                                                ![i].feedback_collected = TRUE]
                        ELSE meal_plans
    /\ UNCHANGED <<grocery_lists, messages>>
    /\ HandlerFrame

\* The scheduled function generate_weekly_plan of functions/weekly_planner.py
WeeklyPlannerFunction ==
    /\ event' = Handled("weekly_planner", None)
    /\ IF \/ ~prefs.bootstrap_complete
          \/ Len(get_all_recipes(TRUE)) < 7
          \/ FirstWithStatus(meal_plans, "pending_approval") # 0
       THEN UNCHANGED <<meal_plans, messages>>
       ELSE /\ Len(meal_plans) < MaxPlans
            /\ \E plan \in WeeklyPlans, explained \in BOOLEAN :
                  /\ meal_plans' = AddPlan(plan)
                  /\ messages' = IF explained /\ prefs.planning_channel_id # None
                                 THEN Post(PlanMessage(NewId("plan", meal_plans)))
                                 ELSE messages
    /\ UNCHANGED grocery_lists
    /\ HandlerFrame

\* A GroceryList as stored
ListDocument(list, id) ==
    [id |-> id, meal_plan_id |-> list.meal_plan_id, week_start |-> list.week_start,
     items |-> list.items, status |-> list.status, google_tasks_id |-> None,
     approved_by |-> None]

\* db.get_grocery_list_for_plan: the position of the plan's list, 0 when none
ListForPlan(plan_id) ==
    LET found == { i \in 1..Len(grocery_lists) : grocery_lists[i].meal_plan_id = plan_id }
    IN IF found = {} THEN 0 ELSE CHOOSE i \in found : \A j \in found : i <= j

\* The items an edit leaves: every line deleted, or the one line "milk"
EditedItems ==
    { << >>,
      << [name |-> "milk", quantity |-> Float(32), unit |-> "each", store |-> "meijer",
          category |-> "general", recipe_sources |-> << >>, checked |-> FALSE] >> }

\* "/menu-grocery new": _generate_grocery_list
GenerateGroceryListCommand ==
    /\ event' = Handled("_generate_grocery_list", None)
    /\ \E p \in { IF FirstWithStatus(meal_plans, "active") # 0
                  THEN FirstWithStatus(meal_plans, "active")
                  ELSE FirstWithStatus(meal_plans, "pending_approval") } :
          IF p = 0 THEN UNCHANGED <<grocery_lists, messages>>
          ELSE \E existing \in { ListForPlan(meal_plans[p].id) } :
                  IF existing # 0
                  THEN /\ UNCHANGED grocery_lists
                       /\ messages' = IF grocery_lists[existing].status
                                            \in {"pending_approval", "approved"}
                                      THEN Post(ListMessage(grocery_lists[existing].id,
                                                            grocery_lists[existing].status))
                                      ELSE messages
                  ELSE /\ Len(grocery_lists) < MaxLists
                       /\ grocery_lists' =
                             Append(grocery_lists,
                                    ListDocument(generate_grocery_list(config, meal_plans[p]),
                                                 NewId("list", grocery_lists)))
                       /\ messages' = Post(ListMessage(NewId("list", grocery_lists),
                                                       "pending_approval"))
    /\ UNCHANGED meal_plans
    /\ HandlerFrame

\* The scheduled function generate_grocery_list of functions/grocery_generator.py
GroceryGeneratorFunction ==
    /\ event' = Handled("grocery_generator", None)
    /\ \E p \in { FirstWithStatus(meal_plans, "active") } :
          IF ~prefs.bootstrap_complete \/ p = 0 \/ ListForPlan(meal_plans[p].id) # 0
          THEN UNCHANGED <<grocery_lists, messages>>
          ELSE /\ Len(grocery_lists) < MaxLists
               /\ grocery_lists' =
                     Append(grocery_lists,
                            ListDocument(generate_grocery_list(config, meal_plans[p]),
                                         NewId("list", grocery_lists)))
               /\ messages' = IF prefs.planning_channel_id # None
                              THEN Post(ListMessage(NewId("list", grocery_lists),
                                                    "pending_approval"))
                              ELSE messages
    /\ UNCHANGED meal_plans
    /\ HandlerFrame

\* Button "Approve" of a list message: handle_approve_list under require_parent
HandleApproveList ==
    \E user_id \in UserIds, m \in 1..Len(messages) :
       /\ messages[m].kind = "grocery_list"
       /\ messages[m].rendered = "pending_approval"
       /\ event' = Handled("handle_approve_list", user_id)
       /\ IF RequireParent(user_id)
          THEN /\ grocery_lists' = approve_grocery_list(messages[m].id, user_id)
               /\ messages' = [messages EXCEPT ![m] = ListMessage(messages[m].id, "approved")]
          ELSE UNCHANGED <<grocery_lists, messages>>
       /\ UNCHANGED meal_plans
       /\ HandlerFrame

\* "/menu-approve-grocery": handle_approve_command of the grocery handlers
HandleApproveGroceryCommand ==
    \E user_id \in UserIds :
       /\ event' = Handled("handle_approve_grocery_command", user_id)
       /\ \E i \in { FirstWithStatus(grocery_lists, "pending_approval") } :
             grocery_lists' = IF RequireParent(user_id) /\ i # 0
                              THEN approve_grocery_list(grocery_lists[i].id, user_id)
                              ELSE grocery_lists
       /\ UNCHANGED <<meal_plans, messages>>
       /\ HandlerFrame

\* Button "Edit Items" and the modal it opens: handle_edit_submission
HandleEditSubmission ==
    \E m \in 1..Len(messages), new_items \in EditedItems :
       /\ messages[m].kind = "grocery_list"
       /\ messages[m].rendered = "pending_approval"
       /\ event' = Handled("handle_edit_submission", None)
       /\ \E i \in { DocumentIndex(grocery_lists, messages[m].id) } :
             /\ i # 0
             /\ grocery_lists' = [grocery_lists EXCEPT ![i].items = new_items]
       /\ UNCHANGED <<meal_plans, messages>>
       /\ HandlerFrame

\* Button "Send to Google Tasks": handle_sync_to_tasks
HandleSyncToTasks ==
    \E user_id \in UserIds \ {None}, m \in 1..Len(messages), synced \in BOOLEAN :
       /\ messages[m].kind = "grocery_list"
       /\ messages[m].rendered = "approved"
       /\ event' = Handled("handle_sync_to_tasks", user_id)
       /\ \E member \in { get_family_member(user_id) },
             i \in { DocumentIndex(grocery_lists, messages[m].id) } :
             grocery_lists' = IF /\ member # NoDocument
                                 /\ member.google_tasks_linked
                                 /\ i # 0
                                 /\ synced
                              THEN [grocery_lists EXCEPT ![i].google_tasks_id = "tasks1"]
                              ELSE grocery_lists
       /\ UNCHANGED <<meal_plans, messages>>
       /\ HandlerFrame

\* The documents the handlers start from
InitHandlers ==
    /\ call = Idle
    /\ config = DefaultConfig
    /\ meal_plan = NoDocument
    /\ grocery_list = NoDocument
    /\ overrides = 0
    /\ today = 24
    /\ meal_plans \in FirstPlans(today)
    /\ plan_call = Idle
    /\ grocery_lists = << >>
    /\ messages = IF meal_plans[2].status = "pending_approval"
                  THEN << PlanMessage("plan2") >> ELSE << >>
    /\ prefs \in PreferenceChoices
    /\ event = Idle
    /\ requests = << >>

InitPlanning ==
    /\ recipe_collection \in RecipeCollections
    /\ InitHandlers

\* The planning handlers and the scheduled functions that write meal plans
NextPlanning ==
    \/ GenerateNewPlan
    \/ ShowPendingPlan
    \/ HandleApprovePlan
    \/ HandleRegeneratePlan
    \/ HandleSwapSubmission
    \/ HandleApproveCommand
    \/ WeeklyFeedbackSummary
    \/ WeeklyPlannerFunction

SpecPlanning == InitPlanning /\ [][NextPlanning]_vars

\* Every handler, over the five approved recipes of RecipeDocs
InitBot ==
    /\ recipe_collection = RecipeDocs
    /\ InitHandlers

NextBot ==
    \/ NextPlanning
    \/ GenerateGroceryListCommand
    \/ GroceryGeneratorFunction
    \/ HandleApproveList
    \/ HandleApproveGroceryCommand
    \/ HandleEditSubmission
    \/ HandleSyncToTasks

SpecBot == InitBot /\ [][NextBot]_vars

-----------------------------------------------------------------------------
(* _rank_recipes, called with the seasonal contexts of any month *)

\* Names of produce as config/seasonal.yaml may list them
ProduceNames ==
    <<"Tomatoes", "Kale", "Apples", "onions", "Winter Squash", "Squash", "potatoes">>

\* seasonal_context["peak_produce_names"]: the names at their peak, in the
\* order of the configuration
PeakProduceLists ==
    { SelectSeq(ProduceNames, LAMBDA name : name \in at_peak) :
        at_peak \in SUBSET { ProduceNames[i] : i \in 1..Len(ProduceNames) } }

\* The ratings given so far
RatingLists ==
    { << >>,
      << Rating("recipe3", "kid", 5), Rating("recipe3", "adult", 2),
         Rating("recipe5", "kid", 4) >> }

\* prefs.preferred_meal_ids
PreferredMealLists == { << >>, <<"recipe3", "recipe6">> }

\* The recipe ids found in recent plans
RecentlyUsedSets == { {}, {"recipe1", "recipe2"} }

RankRecipes ==
    /\ plan_call = Idle
    /\ \E ratings \in RatingLists, recently_used \in RecentlyUsedSets,
          peak_produce_names \in PeakProduceLists, preferred_meal_ids \in PreferredMealLists :
          plan_call' = [op |-> "_rank_recipes",
                        recipes |-> get_all_recipes(FALSE),
                        scores |-> get_recipe_scores(ratings),
                        recently_used |-> recently_used,
                        peak_produce_names |-> peak_produce_names,
                        preferred_meal_ids |-> preferred_meal_ids,
                        ret |-> _rank_recipes(get_all_recipes(FALSE),
                                              get_recipe_scores(ratings), recently_used,
                                              peak_produce_names, preferred_meal_ids)]
    /\ UNCHANGED <<today, meal_plans>>
    /\ GroceryFrame

NextRank ==
    \/ ReturnPlanner
    \/ RankRecipes

SpecRank == InitPure /\ [][NextRank]_vars

-----------------------------------------------------------------------------
(* Handler runs that overlap: each is a sequence of reads and writes of the
   stored documents, and the steps of two runs may alternate *)

\* What concurrent handler runs leave alone
RequestFrame ==
    UNCHANGED <<call, config, meal_plan, grocery_list, overrides, today, plan_call,
                recipe_collection, prefs>>

\* A swap submission as it arrives: the plan of the modal and the day chosen
SwapRequest(plan_id, day_to_swap) ==
    [op |-> "handle_swap_submission", pc |-> "submitted", plan_id |-> plan_id,
     day_to_swap |-> day_to_swap, plan |-> NoDocument, updated_plan |-> NoDocument]

\* The plan two users look at: three days, awaiting approval
SwapPlan(now) ==
    PlanDocument(MealPlanOf("plan1", now + 4, <<"recipe1", "recipe2", "recipe3">>,
                            "pending_approval"), FALSE, None)

\* plan = self.db.get_meal_plan(plan_id)
SwapGetPlan ==
    \E r \in 1..Len(requests) :
       /\ requests[r].op = "handle_swap_submission"
       /\ requests[r].pc = "submitted"
       /\ \E i \in { DocumentIndex(meal_plans, requests[r].plan_id) } :
             requests' = IF i = 0
                         THEN [requests EXCEPT ![r].pc = "done"]
                         ELSE [requests EXCEPT ![r].pc = "read", ![r].plan = meal_plans[i]]
       /\ UNCHANGED <<meal_plans, grocery_lists, messages, event>>
       /\ RequestFrame

\* updated_plan = self.planner.regenerate_meal(plan, day_to_swap)
SwapRegenerate ==
    \E r \in 1..Len(requests) :
       /\ requests[r].op = "handle_swap_submission"
       /\ requests[r].pc = "read"
       /\ \E updated_plan \in RegeneratedPlans(requests[r].plan, requests[r].day_to_swap) :
             requests' = [requests EXCEPT ![r].pc = "regenerated",
                                          ![r].updated_plan = updated_plan]
       /\ UNCHANGED <<meal_plans, grocery_lists, messages, event>>
       /\ RequestFrame

\* self.db.save_meal_plan(updated_plan), then the message to the channel
SwapSave ==
    \E r \in 1..Len(requests) :
       /\ requests[r].op = "handle_swap_submission"
       /\ requests[r].pc = "regenerated"
       /\ \E i \in { DocumentIndex(meal_plans, requests[r].updated_plan.id) } :
             meal_plans' = [meal_plans EXCEPT ![i] = requests[r].updated_plan]
       /\ messages' = IF /\ prefs.planning_channel_id # None
                         /\ requests[r].updated_plan.status = "pending_approval"
                      THEN Post(PlanMessage(requests[r].updated_plan.id))
                      ELSE messages
       /\ requests' = [requests EXCEPT ![r].pc = "done"]
       /\ event' = Handled("handle_swap_submission", None)
       /\ UNCHANGED grocery_lists
       /\ RequestFrame

\* Two users have the swap modal of the same plan open and submit different
\* days; the plan was posted with its buttons.
InitSwap ==
    /\ recipe_collection \in { RecipeDocs, RecipeDocs \o <<ExtraRecipe(7)>> }
    /\ call = Idle
    /\ config = DefaultConfig
    /\ meal_plan = NoDocument
    /\ grocery_list = NoDocument
    /\ overrides = 0
    /\ today = 24
    /\ meal_plans = << SwapPlan(today) >>
    /\ plan_call = Idle
    /\ grocery_lists = << >>
    /\ messages = << PlanMessage("plan1") >>
    /\ prefs \in { p \in PreferenceChoices : p.bootstrap_complete }
    /\ event = Idle
    /\ requests \in { << SwapRequest("plan1", meal_plans[1].meals[a].day_of_week),
                         SwapRequest("plan1", meal_plans[1].meals[b].day_of_week) >> :
                      a, b \in 1..Len(meal_plans[1].meals) }
    /\ requests[1].day_to_swap # requests[2].day_to_swap

NextSwap ==
    \/ SwapGetPlan
    \/ SwapRegenerate
    \/ SwapSave

SpecSwap == InitSwap /\ [][NextSwap]_vars

-----------------------------------------------------------------------------
(* A plan generated, saved and regenerated before anyone approved it *)

\* What collection "meal_plans" holds at first: nothing, or a completed plan
\* of the week that began 20 days ago
EarlierPlans(now) ==
    { << >>,
      << PlanDocument(MealPlanOf("plan1", now - 20, <<"recipe1", "recipe2">>, "completed"),
                      TRUE, "U_MOM") >> }

\* Seven approved recipes
InitFresh ==
    /\ recipe_collection = RecipeDocs \o <<ExtraRecipe(7), ExtraRecipe(8)>>
    /\ call = Idle
    /\ config = DefaultConfig
    /\ meal_plan = NoDocument
    /\ grocery_list = NoDocument
    /\ overrides = 0
    /\ today = 24
    /\ meal_plans \in EarlierPlans(today)
    /\ plan_call = Idle
    /\ grocery_lists = << >>
    /\ messages = << >>
    /\ prefs = [bootstrap_complete |-> TRUE, planning_channel_id |-> "C_PLANNING"]
    /\ event = Idle
    /\ requests = << >>

\* "/menu-plan new", then the button "Regenerate" of the message it posted
NextFresh ==
    \/ GenerateNewPlan
    \/ HandleRegeneratePlan

SpecFresh == InitFresh /\ [][NextFresh]_vars

-----------------------------------------------------------------------------
(* Grocery generation requests that overlap: "/menu-grocery new", the
   scheduled handler and the cloud function *)

MaxRequests == 2

GenerationOps == {"_generate_grocery_list", "generate_grocery_list_scheduled",
                  "grocery_generator"}

\* A generation request as it arrives
ListRequest(op) == [op |-> op, pc |-> "called", plan |-> NoDocument]

\* meal_plan = get_current_meal_plan(), for the command get_pending_meal_plan()
\* when there is none; the cloud function returns before it when bootstrap
\* is not complete.
ListGetPlan ==
    \E r \in 1..Len(requests) :
       /\ requests[r].op \in GenerationOps
       /\ requests[r].pc = "called"
       /\ \E p \in { IF FirstWithStatus(meal_plans, "active") # 0
                        \/ requests[r].op # "_generate_grocery_list"
                     THEN FirstWithStatus(meal_plans, "active")
                     ELSE FirstWithStatus(meal_plans, "pending_approval") } :
             requests' =
                IF p = 0 \/ (requests[r].op = "grocery_generator" /\ ~prefs.bootstrap_complete)
                THEN [requests EXCEPT ![r].pc = "done"]
                ELSE [requests EXCEPT ![r].pc = "planned", ![r].plan = meal_plans[p]]
       /\ UNCHANGED <<meal_plans, grocery_lists, messages, event>>
       /\ RequestFrame

\* existing = get_grocery_list_for_plan(meal_plan.id): the run ends when there
\* is one (the command shows it), and the scheduled handler ends without a
\* planning channel.
ListCheckExisting ==
    \E r \in 1..Len(requests) :
       /\ requests[r].op \in GenerationOps
       /\ requests[r].pc = "planned"
       /\ \E existing \in { ListForPlan(requests[r].plan.id) } :
             /\ requests' =
                   IF \/ existing # 0
                      \/ /\ requests[r].op = "generate_grocery_list_scheduled"
                         /\ prefs.planning_channel_id = None
                   THEN [requests EXCEPT ![r].pc = "done"]
                   ELSE [requests EXCEPT ![r].pc = "checked"]
             /\ messages' =
                   IF /\ existing # 0
                      /\ requests[r].op = "_generate_grocery_list"
                      /\ grocery_lists[existing].status \in {"pending_approval", "approved"}
                   THEN Post(ListMessage(grocery_lists[existing].id,
                                         grocery_lists[existing].status))
                   ELSE messages
       /\ UNCHANGED <<meal_plans, grocery_lists, event>>
       /\ RequestFrame

\* grocery_list = generate_grocery_list(meal_plan); save_grocery_list adds the
\* document; the list is posted (by the cloud function, when there is a
\* planning channel).
ListSave ==
    \E r \in 1..Len(requests) :
       /\ requests[r].op \in GenerationOps
       /\ requests[r].pc = "checked"
       /\ grocery_lists' =
             Append(grocery_lists,
                    ListDocument(generate_grocery_list(config, requests[r].plan),
                                 NewId("list", grocery_lists)))
       /\ messages' = IF \/ requests[r].op # "grocery_generator"
                         \/ prefs.planning_channel_id # None
                      THEN Post(ListMessage(NewId("list", grocery_lists), "pending_approval"))
                      ELSE messages
       /\ requests' = [requests EXCEPT ![r].pc = "done"]
       /\ event' = Handled(requests[r].op, None)
       /\ UNCHANGED meal_plans
       /\ RequestFrame

\* The plans stored: this week's plan, approved or awaiting approval
ListPlans(now) ==
    { << PlanDocument(MealPlanOf("plan1", now - 3, <<"recipe1", "recipe2">>, "active"),
                      FALSE, "U_MOM") >>,
      << PlanDocument(MealPlanOf("plan1", now - 3, <<"recipe1", "recipe2">>,
                                 "pending_approval"), FALSE, None) >> }

\* MaxRequests requests arrive, of any of the three kinds; no list is stored.
InitLists ==
    /\ recipe_collection = RecipeDocs
    /\ call = Idle
    /\ config = DefaultConfig
    /\ meal_plan = NoDocument
    /\ grocery_list = NoDocument
    /\ overrides = 0
    /\ today = 24
    /\ meal_plans \in ListPlans(today)
    /\ plan_call = Idle
    /\ grocery_lists = << >>
    /\ messages = << >>
    /\ prefs \in PreferenceChoices
    /\ event = Idle
    /\ requests \in { ListOf([r \in 1..MaxRequests |-> ListRequest(ops[r])]) :
                      ops \in [1..MaxRequests -> GenerationOps] }

NextLists ==
    \/ ListGetPlan
    \/ ListCheckExisting
    \/ ListSave

SpecLists == InitLists /\ [][NextLists]_vars

-----
(* Properties *)

\* The table of unit spellings as the specification states it
UnitTable ==
    << <<{"tablespoon", "tablespoons", "tbsps"}, "tbsp">>,
       <<{"teaspoon", "teaspoons", "tsps"}, "tsp">>,
       <<{"cups"}, "cup">>,
       <<{"ounce", "ounces"}, "oz">>,
       <<{"pound", "pounds", "lbs"}, "lb">>,
       <<{"clove"}, "cloves">>,
       <<{"piece", "pieces", ""}, "each">> >>

\* C6: _normalize_unit lowercases and trims its input, maps the result through
\* the fixed table, returns every other unit lowercased and trimmed but
\* otherwise unchanged, and maps its own output to itself.
C6_NormalizeUnitTable ==
    call.op = "_normalize_unit" =>
        LET u == Strip(Lower(call.unit))
        IN /\ \A i \in 1..Len(UnitTable) : u \in UnitTable[i][1] => call.ret = UnitTable[i][2]
           /\ (\A i \in 1..Len(UnitTable) : u \notin UnitTable[i][1]) => call.ret = u
           /\ _normalize_unit(call.ret) = call.ret

\* A padded, capitalised table spelling has been normalised.
C6_Witness ==
    /\ call.op = "_normalize_unit"
    /\ call.unit = " Tablespoons  "
    /\ call.ret = "tbsp"

\* The tenth nearest to a quantity, a tie going to the even tenth
NearestTenth(quantity) ==
    LET x == TimesTen(quantity)
        exact == x.hi = 0 /\ x.lo = 0
    IN CHOOSE t \in 0..(x.units \div 32 + 1) :
          /\ 32 * t - 16 <= x.units
          /\ x.units < 32 * t + 16 \/ (x.units = 32 * t + 16 /\ exact)
          /\ (exact /\ (x.units = 32 * t - 16 \/ x.units = 32 * t + 16)) => t % 2 = 0

\* The rendering the specification prescribes
RenderedQuantity(quantity, unit) ==
    IF quantity = Float(0) THEN (IF unit = "" THEN "to taste" ELSE unit)
    ELSE LET t == NearestTenth(quantity)
             number == IF IsIntegral(quantity) THEN ToString(quantity.units \div 32)
                       ELSE IF t % 10 = 0 THEN ToString(t \div 10)
                       ELSE ToString(t \div 10) \o "." \o ToString(t % 10)
         IN IF unit \in {"", "each"} THEN number ELSE number \o " " \o unit

\* C7: both renderers give, for every (quantity, unit), the unit or "to taste"
\* for quantity 0, an integral quantity without decimal part, a fractional one
\* to one decimal with trailing zero and point stripped, the unit appended
\* unless empty or "each"; and both return the same string.
C7_FormatQuantity ==
    call.op \in {"GroceryOptimizer._format_quantity", "slack_utils._format_quantity"} =>
        /\ call.ret = RenderedQuantity(call.quantity, call.unit)
        /\ call.ret = _format_quantity(call.quantity, call.unit)
        /\ call.ret = slack_format_quantity(call.quantity, call.unit)
        /\ (call.quantity = Float(64) /\ call.unit = "") => call.ret = "2"
        /\ (call.quantity = Float(48) /\ call.unit = "") => call.ret = "1.5"
        /\ (call.quantity = Float(96) /\ call.unit = "each") => call.ret = "3"

\* The chat renderer has rendered three of an item counted in "each".
C7_Witness ==
    /\ call.op = "slack_utils._format_quantity"
    /\ call.quantity = Float(96)
    /\ call.unit = "each"
    /\ call.ret = "3"

\* The bulk rule of the routing, as the specification states it
BulkRuleApplies(cfg, category, quantity) ==
    LET thresholds == DictGet(DictGet(cfg.stores, "costco", << >>), "bulk_thresholds", << >>)
    IN \/ category = "meat" /\ AtLeast(quantity, DictGet(thresholds, "meat_lbs", 64))
       \/ category = "cheese" /\ AtLeast(quantity, DictGet(thresholds, "cheese_lbs", 32))
       \/ category = "pantry" /\ AtLeast(quantity, DictGet(thresholds, "pantry_items", 96))

\* Where the bulk rule may send an item: the category's bulk store, or costco
BulkDestinations(cfg, category) ==
    {"costco"} \cup
    { s \in {DictGet(DictGet(cfg.categories, category, << >>), "bulk_store", None)} : Truthy(s) }

PreferredStore(cfg, category) ==
    DictGet(DictGet(cfg.categories, category, << >>), "preferred_store", None)

\* The stores, by position in the configuration, that list the category
PriorityPositions(cfg, category) ==
    { i \in 1..Len(cfg.stores) :
        InList(category, DictGet(cfg.stores[i][2], "priority_categories", << >>)) }

\* C4: _assign_store returns the first applicable of (a) the bulk rule, (b) the
\* category's preferred store, (c) the first store in configuration order that
\* lists the category, (d) "meijer".
C4_AssignStorePrecedence ==
    call.op = "_assign_store" =>
        LET cfg == call.cfg
            category == call.category
            bulk == BulkRuleApplies(cfg, category, call.quantity)
            preferred == PreferredStore(cfg, category)
            positions == PriorityPositions(cfg, category)
        IN /\ bulk => call.ret \in BulkDestinations(cfg, category)
           /\ (~bulk /\ Truthy(preferred)) => call.ret = preferred
           /\ (~bulk /\ ~Truthy(preferred) /\ positions # {}) =>
                 \E i \in positions : /\ call.ret = cfg.stores[i][1]
                                      /\ \A j \in positions : i <= j
           /\ (~bulk /\ ~Truthy(preferred) /\ positions = {}) => call.ret = "meijer"

\* Meat at its threshold went to costco although the category prefers buschs.
C4_Witness ==
    /\ call.op = "_assign_store"
    /\ call.category = "meat"
    /\ PreferredStore(call.cfg, "meat") = "buschs"
    /\ call.quantity = Float(64)
    /\ call.ret = "costco"

-----------------------------------------------------------------------------
(* Properties of the grocery list *)

\* The recipes generate_grocery_list resolved for the plan handed to it
ResolvedRecipes ==
    get_recipes_by_ids(ListOf([i \in 1..Len(meal_plan.meals) |-> meal_plan.meals[i].recipe_id]))

\* The positions <<i, j>> of the ingredients of a list of recipes
IngredientPositions(recipes) ==
    UNION { { <<i, j>> : j \in 1..Len(recipes[i].ingredients) } : i \in 1..Len(recipes) }

\* The key an ingredient is counted under
KeyOf(ingredient) ==
    <<_normalize_ingredient_name(ingredient.name), _normalize_unit(ingredient.unit)>>

RECURSIVE IngredientsOf(_)
\* The ingredients of a list of recipes in the order the aggregation meets them
IngredientsOf(recipes) ==
    IF recipes = << >> THEN << >>
    ELSE Head(recipes).ingredients \o IngredientsOf(Tail(recipes))

\* The keys and quantities of those ingredients, in that order
KeyedQuantities(recipes) ==
    LET ingredients == IngredientsOf(recipes)
    IN ListOf([i \in 1..Len(ingredients) |->
                 [key |-> KeyOf(ingredients[i]), quantity |-> ingredients[i].quantity]])

\* The quantities counted under a key, in that order
Contributions(keyed, key) ==
    LET under == SelectSeq(keyed, LAMBDA e : e.key = key)
    IN ListOf([i \in 1..Len(under) |-> under[i].quantity])

RECURSIVE FloatSum(_)
\* The floats of a list added one after the other, from 0
FloatSum(quantities) ==
    IF quantities = << >> THEN Float(0)
    ELSE FloatAdd(FloatSum(SubSeq(quantities, 1, Len(quantities) - 1)),
                  quantities[Len(quantities)])

RECURSIVE ExactSum(_)
\* The sum of the floats of a list as real numbers
ExactSum(quantities) ==
    IF quantities = << >> THEN Float(0)
    ELSE ExactAdd(ExactSum(Tail(quantities)), Head(quantities))

\* Whether all floats of a list are multiples of 1/32
AllThirtySeconds(quantities) ==
    \A i \in 1..Len(quantities) : quantities[i].hi = 0 /\ quantities[i].lo = 0

\* The orderings of a list
Orderings(s) ==
    { ListOf([i \in 1..Len(s) |-> s[f[i]]]) :
        f \in { g \in [1..Len(s) -> 1..Len(s)] :
                  \A a, b \in 1..Len(s) : g[a] = g[b] => a = b } }

\* C1 (as claimed): in a list as generated, each item's quantity is the sum of
\* the quantities of all ingredients, over all the recipes, whose normalized
\* name and unit are the item's, and _aggregate_ingredients finds the same
\* total for every key in whatever order the recipes are handed to it.
C1_SameTotalInEveryOrder ==
    grocery_list # NoDocument /\ overrides = 0 =>
        LET recipes == ResolvedRecipes
            items == grocery_list.items
            keyed == KeyedQuantities(recipes)
        IN /\ \A k \in 1..Len(items) :
                 items[k].quantity =
                     FloatSum(Contributions(keyed, <<items[k].name, items[k].unit>>))
           /\ \A reordered \in Orderings(recipes) :
                 LET aggregated == _aggregate_ingredients(config, reordered)
                 IN \A k \in 1..Len(items) :
                       /\ DictHas(aggregated, <<items[k].name, items[k].unit>>)
                       /\ DictGet(aggregated, <<items[k].name, items[k].unit>>,
                                  AggDefault).qty = items[k].quantity

\* C1 (what the code does): every key of an ingredient of the resolved recipes
\* is on the list and every item has such a key; each item's quantity is the
\* float sum of its contributions, added in the order the ingredients are
\* met; it is their exact sum when they are multiples of 1/32; and in
\* whatever order the recipes are handed to _aggregate_ingredients the keys
\* are the same, and so is the total of every key that has at most two
\* contributions or whose contributions are multiples of 1/32.
C1_AggregateSums ==
    grocery_list # NoDocument /\ overrides = 0 =>
        LET recipes == ResolvedRecipes
            items == grocery_list.items
            keyed == KeyedQuantities(recipes)
        IN /\ \A i \in 1..Len(keyed) :
                 \E k \in 1..Len(items) : <<items[k].name, items[k].unit>> = keyed[i].key
           /\ \A k \in 1..Len(items) :
                 LET contributions == Contributions(keyed, <<items[k].name, items[k].unit>>)
                 IN /\ contributions # << >>
                    /\ items[k].quantity = FloatSum(contributions)
                    /\ AllThirtySeconds(contributions) =>
                          items[k].quantity = ExactSum(contributions)
           /\ \A reordered \in Orderings(recipes) :
                 LET aggregated == _aggregate_ingredients(config, reordered)
                 IN /\ Len(aggregated) = Len(items)
                    /\ \A k \in 1..Len(items) :
                          LET key == <<items[k].name, items[k].unit>>
                              contributions == Contributions(keyed, key)
                          IN /\ DictHas(aggregated, key)
                             /\ AllThirtySeconds(contributions) \/ Len(contributions) <= 2
                                => DictGet(aggregated, key, AggDefault).qty = items[k].quantity

\* Spaghetti, Chili and Salad need 0.1 lb, 0.2 lb and 0.7 lb of parmesan, in
\* this order of the plan 1 lb on the list, and Spaghetti's 2 lb and Chili's
\* 1.5 lb of tomatoes have become one item of 3.5 lb.
C1_Witness ==
    /\ grocery_list # NoDocument
    /\ overrides = 0
    /\ Len(ResolvedRecipes) = 3
    /\ \E k \in 1..Len(grocery_list.items) :
          /\ grocery_list.items[k].name = "parmesan"
          /\ grocery_list.items[k].unit = "lb"
          /\ grocery_list.items[k].quantity = Float(32)
          /\ grocery_list.items[k].recipe_sources = <<"Spaghetti", "Chili", "Salad">>
    /\ \E k \in 1..Len(grocery_list.items) :
          /\ grocery_list.items[k].name = "tomato"
          /\ grocery_list.items[k].unit = "lb"
          /\ grocery_list.items[k].quantity = Float(112)

\* C2: no two items of a generated list have the same (name, unit).
C2_UniqueNameUnit ==
    grocery_list # NoDocument =>
        \A a, b \in 1..Len(grocery_list.items) :
            /\ grocery_list.items[a].name = grocery_list.items[b].name
            /\ grocery_list.items[a].unit = grocery_list.items[b].unit
            => a = b

\* Spaghetti's "ground beef" in "lb" and Chili's "  Ground Beef  " in "LBS"
\* are one item; the garlic of Spaghetti ("cloves") and of Salad ("each") are two.
C2_Witness ==
    /\ grocery_list # NoDocument
    /\ \E k \in 1..Len(grocery_list.items) :
          /\ grocery_list.items[k].quantity = Float(64)
          /\ grocery_list.items[k].recipe_sources = <<"Spaghetti", "Chili">>
    /\ Len(grocery_list.items) < Cardinality(IngredientPositions(ResolvedRecipes))

\* C5 (as claimed): when the plan's recipes are Spaghetti (1 lb of ground beef)
\* and Tacos (1.5 lb of ground beef), the list holds the item ("ground beef",
\* "lb") of 2.5 lb with two source recipes.
C5_GroundBeefKey ==
    /\ grocery_list # NoDocument
    /\ Len(meal_plan.meals) = 2
    /\ { meal_plan.meals[i].recipe_id : i \in 1..2 } = {"recipe1", "recipe2"}
    => \E k \in 1..Len(grocery_list.items) :
          /\ grocery_list.items[k].name = "ground beef"
          /\ grocery_list.items[k].unit = "lb"
          /\ grocery_list.items[k].quantity = Float(80)
          /\ Len(grocery_list.items[k].recipe_sources) = 2

\* C5 (what the code does): "ground " is one of the modifiers the normaliser
\* removes, so the 2.5 lb from the two recipes are listed under ("beef", "lb").
C5_BeefKey ==
    /\ grocery_list # NoDocument
    /\ Len(meal_plan.meals) = 2
    /\ { meal_plan.meals[i].recipe_id : i \in 1..2 } = {"recipe1", "recipe2"}
    => /\ \A k \in 1..Len(grocery_list.items) : grocery_list.items[k].name # "ground beef"
       /\ \E k \in 1..Len(grocery_list.items) :
             /\ grocery_list.items[k].name = "beef"
             /\ grocery_list.items[k].unit = "lb"
             /\ grocery_list.items[k].quantity = Float(80)
             /\ Len(grocery_list.items[k].recipe_sources) = 2

C5_Witness ==
    /\ grocery_list # NoDocument
    /\ Len(meal_plan.meals) = 2
    /\ meal_plan.meals[1].recipe_id = "recipe1"
    /\ meal_plan.meals[2].recipe_id = "recipe2"
    /\ \E k \in 1..Len(grocery_list.items) : grocery_list.items[k].name = "beef"

\* C8: the groups get_list_by_store returns have distinct keys and no empty
\* group; every item of a group is of the group's store; every item of the
\* list is in the groups as often as on the list; each group is in (category,
\* name) order, items of equal category and name in list order; and the list
\* is as it was before the call, so that a second call returns the same.
C8_ListByStore ==
    call.op = "get_list_by_store" =>
        LET groups == call.ret
            items == grocery_list.items
            Slots == UNION { { <<a, k>> : k \in 1..Len(groups[a][2]) } : a \in 1..Len(groups) }
        IN /\ \A a, b \in 1..Len(groups) : groups[a][1] = groups[b][1] => a = b
           /\ \A a \in 1..Len(groups) : Len(groups[a][2]) > 0
           /\ \A s \in Slots : groups[s[1]][2][s[2]].store = groups[s[1]][1]
           /\ \A s \in Slots : InList(groups[s[1]][2][s[2]], items)
           /\ \A i \in 1..Len(items) :
                 Cardinality({ s \in Slots : groups[s[1]][2][s[2]] = items[i] })
                     = Cardinality({ j \in 1..Len(items) : items[j] = items[i] })
           /\ \A a \in 1..Len(groups) :
                 \A k, l \in 1..Len(groups[a][2]) :
                     k < l =>
                        /\ ~CategoryNameLess(groups[a][2][l], groups[a][2][k])
                        /\ ~CategoryNameLess(groups[a][2][k], groups[a][2][l])
                           => \E i, j \in 1..Len(items) :
                                 /\ i < j
                                 /\ items[i] = groups[a][2][k]
                                 /\ items[j] = groups[a][2][l]
           /\ call.list = grocery_list
           /\ get_list_by_store(grocery_list) = groups

\* An item moved to another store stands in its new group elsewhere than list
\* order alone would put it, and two items of one category and name (garlic by
\* the clove and by the piece) share a group.
C8_Witness ==
    /\ call.op = "get_list_by_store"
    /\ overrides > 0
    /\ \E a \in 1..Len(call.ret) :
          call.ret[a][2] # SelectSeq(grocery_list.items,
                                     LAMBDA item : item.store = call.ret[a][1])
    /\ \E a \in 1..Len(call.ret) :
          \E k, l \in 1..Len(call.ret[a][2]) :
              /\ k < l
              /\ call.ret[a][2][k].name = call.ret[a][2][l].name
              /\ call.ret[a][2][k].category = call.ret[a][2][l].category

-----------------------------------------------------------------------------
(* Properties of the weekly plan *)

\* C3: in a plan returned by generate_weekly_plan(week_start, N) no recipe id
\* is in two entries, every date lies in [week_start, week_start + N - 1],
\* and the dates are strictly increasing.
C3_PlanEntries ==
    plan_call.op = "generate_weekly_plan" =>
        LET meals == plan_call.ret.meals
            week_start == plan_call.ret.week_start
        IN /\ \A a, b \in 1..Len(meals) : meals[a].recipe_id = meals[b].recipe_id => a = b
           /\ \A a \in 1..Len(meals) :
                 /\ week_start <= meals[a].date
                 /\ meals[a].date <= week_start + plan_call.num_days - 1
           /\ \A a, b \in 1..Len(meals) : a < b => meals[a].date < meals[b].date

\* A plan of as many days as the bound allows, one entry a day
C3_Witness ==
    /\ plan_call.op = "generate_weekly_plan"
    /\ plan_call.num_days = MaxDays
    /\ Len(plan_call.ret.meals) = MaxDays
    /\ Len(plan_call.ranked_recipes) > MaxDays

\* Whether no recipe of a stored plan is a ranked candidate or in the new plan
Excluded(stored) ==
    \A m \in 1..Len(stored.meals) :
        /\ \A i \in 1..Len(plan_call.ranked_recipes) :
              plan_call.ranked_recipes[i][1].id # stored.meals[m].recipe_id
        /\ \A i \in 1..Len(plan_call.ret.meals) :
              plan_call.ret.meals[i].recipe_id # stored.meals[m].recipe_id

\* C9 (as claimed): no recipe of a stored plan whose week_start is at most 14
\* days before the week_start being planned is a ranked candidate or in the
\* plan.
C9_ExcludedBeforePlannedWeek ==
    plan_call.op = "generate_weekly_plan" =>
        \A p \in 1..Len(meal_plans) :
            /\ meal_plans[p].week_start <= plan_call.ret.week_start
            /\ plan_call.ret.week_start - meal_plans[p].week_start <= 14
            => Excluded(meal_plans[p])

\* C9 (amended): no recipe of a stored plan whose week_start is at most 14
\* days before the current UTC date, or later, is a ranked candidate or in
\* the plan; this covers every stored plan at most 14 days before the
\* week_start being planned when that week_start is omitted (the next Monday)
\* or is not before the current UTC date.
C9_ExcludedBeforeToday ==
    plan_call.op = "generate_weekly_plan" =>
        \A p \in 1..Len(meal_plans) :
            /\ meal_plans[p].week_start >= plan_call.utc_today - 14
               => Excluded(meal_plans[p])
            /\ /\ \/ ~plan_call.week_start_given
                  \/ plan_call.ret.week_start >= plan_call.utc_today
               /\ meal_plans[p].week_start <= plan_call.ret.week_start
               /\ plan_call.ret.week_start - meal_plans[p].week_start <= 14
               => Excluded(meal_plans[p])

\* The next Monday is planned five days after the week_start of a stored
\* plan, whose recipe is left out while others are ranked and scheduled.
C9_Witness ==
    /\ plan_call.op = "generate_weekly_plan"
    /\ ~plan_call.week_start_given
    /\ \E p \in 1..Len(meal_plans) :
          /\ plan_call.ret.week_start - meal_plans[p].week_start = 5
          /\ meal_plans[p].meals # << >>
          /\ Excluded(meal_plans[p])
    /\ plan_call.ret.meals # << >>

\* C10: _rank_recipes returns the input recipes whose id is not in
\* recently_used, each once, each with its composite score, the scores never
\* increasing along the list; no recently used recipe is in it.
C10_RankedRecipes ==
    plan_call.op = "generate_weekly_plan" =>
        LET ranked == plan_call.ranked_recipes
            recipes == get_all_recipes(TRUE)
            scores == plan_call.scores
        IN /\ scores = get_recipe_scores(plan_call.context.ratings)
           /\ \A i \in 1..Len(recipes) :
                 Cardinality({ k \in 1..Len(ranked) : ranked[k][1] = recipes[i] })
                    = IF recipes[i].id \in plan_call.recently_used THEN 0 ELSE 1
           /\ \A k \in 1..Len(ranked) : InList(ranked[k][1], recipes)
           /\ \A k \in 1..Len(ranked) :
                 ranked[k][2] = TotalScore(ranked[k][1], scores,
                                           plan_call.context.peak_produce_names,
                                           plan_call.context.preferred_meal_ids)
           /\ \A k, l \in 1..Len(ranked) : k < l => ranked[k][2] >= ranked[l][2]

\* Tacos was used recently and is not ranked, though it outscores a recipe
\* that is; the recipes ranked stand in another order than the repository's.
C10_Witness ==
    /\ plan_call.op = "generate_weekly_plan"
    /\ "recipe2" \in plan_call.recently_used
    /\ \E k \in 1..Len(plan_call.ranked_recipes) :
          plan_call.ranked_recipes[k][2]
             < TotalScore(get_recipe("recipe2"), plan_call.scores,
                          plan_call.context.peak_produce_names,
                          plan_call.context.preferred_meal_ids)
    /\ \E k, l \in 1..Len(plan_call.ranked_recipes) :
          /\ k < l
          /\ plan_call.ranked_recipes[k][2] > plan_call.ranked_recipes[l][2]
          /\ StrLess(plan_call.ranked_recipes[l][1].id, plan_call.ranked_recipes[k][1].id)

-----------------------------------------------------------------------------
(* Properties of the scheduler *)

\* Whether a ranked recipe carries the tag "quick" or "kid-friendly"
IsTagged(p) == InList("quick", p[1].tags) \/ InList("kid-friendly", p[1].tags)

\* The first n elements of a list, or all when it has fewer
Top(n, s) == SubSeq(s, 1, IF Len(s) < n THEN Len(s) ELSE n)

\* The day's candidate pool as the specification states it
Pool(ranked_recipes, used_this_week, day_name) ==
    LET available == SelectSeq(ranked_recipes, LAMBDA p : p[1].id \notin used_this_week)
        tagged == SelectSeq(available, IsTagged)
    IN IF day_name \in {"Saturday", "Sunday"} THEN Top(10, available)
       ELSE IF day_name \in {"Monday", "Tuesday", "Wednesday", "Thursday"}
       THEN Top(7, available)
       ELSE IF tagged = << >> THEN Top(5, available)
       ELSE Top(5, ListOf([i \in 1..Len(tagged) |-> <<tagged[i][1], tagged[i][2] + 40>>]))

\* C11: the recipe _select_recipe returns belongs to the day's candidate pool
\* (top 10 of the available recipes at the weekend, top 7 from Monday to
\* Thursday, on Friday the top 5 of the tagged ones with 1.0 added to their
\* scores if there is one, else the top 5 of all); with 9 available recipes of
\* which 2 are tagged, Friday's pool is those 2; and no recipe is returned
\* only when none is available.
C11_SelectedFromPool ==
    call.op = "_select_recipe" =>
        LET available == SelectSeq(call.ranked_recipes,
                                   LAMBDA p : p[1].id \notin call.used_this_week)
            tagged == SelectSeq(available, IsTagged)
            pool == Pool(call.ranked_recipes, call.used_this_week, call.day_name)
        IN /\ call.candidates = pool
           /\ call.ret = NoRecipe <=> available = << >>
           /\ call.ret # NoRecipe => \E i \in 1..Len(pool) : pool[i][1] = call.ret
           /\ call.ret # NoRecipe => call.ret.id \notin call.used_this_week
           /\ (call.day_name = "Friday" /\ Len(available) = 9 /\ Len(tagged) = 2) =>
                 pool = << <<tagged[1][1], tagged[1][2] + 40>>,
                           <<tagged[2][1], tagged[2][2] + 40>> >>

\* On a Friday with 9 recipes available, 2 of them tagged, the second of the
\* two was drawn from a pool of 2.
C11_Witness ==
    /\ call.op = "_select_recipe"
    /\ call.day_name = "Friday"
    /\ Len(SelectSeq(call.ranked_recipes,
                     LAMBDA p : p[1].id \notin call.used_this_week)) = 9
    /\ Len(call.candidates) = 2
    /\ call.ret.id = "r8"

\* C12: regenerate_meal changes nothing of the plan but recipe_id and
\* recipe_name of the first entry labelled with the day: the number and order
\* of the entries, every other entry, the date and label of the target,
\* week_start and status stay; when no entry carries the label or no recipe
\* is available, the plan is returned as it was.
C12_RegenerateFrame ==
    plan_call # Idle /\ plan_call.op = "regenerate_meal" =>
        LET before == plan_call.meal_plan
            after == plan_call.ret
            labelled == { i \in 1..Len(before.meals) :
                            before.meals[i].day_of_week = plan_call.day_to_replace }
            available == { r \in RecipeIds \ plan_call.excluded : get_recipe(r).approved }
                            \ UsedIds(before)
        IN /\ after.id = before.id
           /\ after.week_start = before.week_start
           /\ after.status = before.status
           /\ Len(after.meals) = Len(before.meals)
           /\ \A i \in 1..Len(before.meals) :
                 /\ after.meals[i].date = before.meals[i].date
                 /\ after.meals[i].day_of_week = before.meals[i].day_of_week
                 /\ (\E j \in labelled : j < i) \/ i \notin labelled =>
                       after.meals[i] = before.meals[i]
           /\ labelled = {} \/ available = {} => after = before

\* The first of the two Mondays of an eight-day plan got another recipe, and
\* the second Monday kept its own.
C12_Witness ==
    /\ plan_call # Idle
    /\ plan_call.op = "regenerate_meal"
    /\ plan_call.meal_plan.id = "plan_f"
    /\ plan_call.day_to_replace = "Monday"
    /\ plan_call.ret.meals[1].recipe_id = "recipe4"
    /\ plan_call.ret.meals[1].recipe_name = "Omelette"
    /\ plan_call.meal_plan.meals[1].recipe_id = "recipe1"
    /\ plan_call.ret.meals[8] = plan_call.meal_plan.meals[8]

\* The approved recipes that are not recently used
Eligible(recently_used) ==
    { r \in RecipeIds : get_recipe(r).approved /\ r \notin recently_used }

\* C13: with at least one approved recipe and E of them eligible,
\* generate_weekly_plan(week_start, N) returns, and the plan has min(N, E)
\* entries on the first min(N, E) days from week_start on; with E >= N there
\* is one entry for each of the N days.
C13_EntriesWhileRecipesLast ==
    /\ plan_call = Idle /\ (\E r \in RecipeIds : get_recipe(r).approved) =>
          ENABLED GenerateWeek
    /\ plan_call # Idle /\ plan_call.op = "generate_weekly_plan" =>
          LET E == Cardinality(Eligible(plan_call.recently_used))
              N == plan_call.num_days
              k == IF N < E THEN N ELSE E
              plan == plan_call.ret
          IN /\ Len(plan.meals) = k
             /\ \A i \in 1..k :
                   /\ plan.meals[i].date = plan.week_start + i - 1
                   /\ plan.meals[i].day_of_week = day_names[((i - 1) % 7) + 1]

\* Eight days were asked for with two recipes eligible: the plan has the
\* entries of Monday and Tuesday only.
C13_Witness ==
    /\ plan_call # Idle
    /\ plan_call.op = "generate_weekly_plan"
    /\ plan_call.num_days = 8
    /\ Cardinality(Eligible(plan_call.recently_used)) = 2
    /\ Len(plan_call.ret.meals) = 2
    /\ plan_call.ret.meals[2].day_of_week = "Tuesday"

\* C14: every MealPlan that generate_weekly_plan returns and every MealPlan
\* that regenerate_meal returns has status "pending_approval", whatever the
\* status of the plan passed in.
C14_ReturnedPending ==
    plan_call # Idle /\ plan_call.op \in {"generate_weekly_plan", "regenerate_meal"} =>
        plan_call.ret.status = "pending_approval"

\* What the code does: generate_weekly_plan returns a plan awaiting approval,
\* and regenerate_meal returns the plan with the status it came with.
C14_StatusKept ==
    /\ plan_call # Idle /\ plan_call.op = "generate_weekly_plan" =>
          plan_call.ret.status = "pending_approval"
    /\ plan_call # Idle /\ plan_call.op = "regenerate_meal" =>
          plan_call.ret.status = plan_call.meal_plan.status

\* An approved plan came back from regenerate_meal with another recipe on
\* Monday and still approved.
C14_Witness ==
    /\ plan_call # Idle
    /\ plan_call.op = "regenerate_meal"
    /\ plan_call.meal_plan.status = "active"
    /\ plan_call.ret.status = "active"
    /\ plan_call.ret.meals[1].recipe_id # plan_call.meal_plan.meals[1].recipe_id

------------------------------------------------------------------------\* The recipe of the entry a regenerate_meal call replaces
CurrentRecipeId == plan_call.meal_plan.meals[plan_call.meal_index].recipe_id

\* A regenerate_meal call found its entry, and the recipe of that entry is
\* stored and approved.
ReplacingStoredRecipe ==
    /\ plan_call # Idle
    /\ plan_call.op = "regenerate_meal"
    /\ plan_call.meal_index # 0
    /\ \E i \in 1..Len(get_all_recipes(TRUE)) : get_all_recipes(TRUE)[i].id = CurrentRecipeId

\* The ids of the recipes _select_recipe has left after its filter
AvailableIds(ranked_recipes, used_this_week) ==
    { ranked_recipes[i][1].id : i \in 1..Len(ranked_recipes) } \ used_this_week

\* C20: regenerate_meal re-admits the recipe that occupies the target day:
\* it is not excluded from the recipes the replacement is drawn from, so it
\* can be selected again.
C20_CurrentRecipeAdmitted ==
    ReplacingStoredRecipe =>
        CurrentRecipeId \in AvailableIds(plan_call.ranked, plan_call.used_ids)

\* What the code does: the recipe is ranked again, but _select_recipe is
\* handed used_ids, which still holds it, so it is never the replacement.
C20_RankedButNeverReselected ==
    ReplacingStoredRecipe =>
        /\ CurrentRecipeId \notin plan_call.excluded
        /\ \E i \in 1..Len(plan_call.ranked) : plan_call.ranked[i][1].id = CurrentRecipeId
        /\ CurrentRecipeId \in plan_call.used_ids
        /\ plan_call.new_recipe = NoRecipe \/ plan_call.new_recipe.id # CurrentRecipeId
        /\ \A day \in DayLabels :
              CurrentRecipeId \notin
                 { r.id : r \in _select_recipe(plan_call.ranked, plan_call.used_ids, day)
                                   \ { NoRecipe } }

\* The recipe of Monday was ranked first among the recipes offered, and the
\* call put another recipe in its place.
C20_Witness ==
    /\ ReplacingStoredRecipe
    /\ plan_call.day_to_replace = "Monday"
    /\ plan_call.ranked[1][1].id = CurrentRecipeId
    /\ plan_call.new_recipe # NoRecipe
    /\ plan_call.new_recipe.id # CurrentRecipeId
    /\ plan_call.ret.meals[plan_call.meal_index].recipe_id = plan_call.new_recipe.id

-----
(* Properties of the handlers *)

\* The place of a status in draft, pending_approval, active, completed
StatusRank(status) ==
    CASE status = "draft" -> 0
      [] status = "pending_approval" -> 1
      [] status = "active" -> 2
      [] status = "completed" -> 3

\* C15: the status of a stored meal plan only moves forward along draft,
\* pending_approval, active, completed, whatever handler runs: no plan goes
\* back from active or completed, and none becomes active except from
\* pending_approval.
C15_StatusForward ==
    [][\A i \in 1..Len(meal_plans) :
          /\ StatusRank(meal_plans'[i].status) >= StatusRank(meal_plans[i].status)
          /\ meal_plans'[i].status = "active" /\ meal_plans[i].status # "active" =>
                meal_plans[i].status = "pending_approval"]_vars

\* What the code does: a plan leaves pending_approval only for active, and
\* every step back is an approval that makes a completed plan active again.
C15_BackOnlyByApproval ==
    [][\A i \in 1..Len(meal_plans) :
          /\ meal_plans[i].status = "pending_approval" =>
                meal_plans'[i].status \in {"pending_approval", "active"}
          /\ meal_plans[i].status = "active" =>
                meal_plans'[i].status \in {"active", "completed"}
          /\ meal_plans[i].status = "completed" /\ meal_plans'[i].status # "completed" =>
                /\ meal_plans'[i].status = "active"
                /\ event'.op = "handle_approve_plan"]_vars

\* A completed plan is active again: a parent pressed Approve on a message
\* written while the plan was pending.
C15_Witness ==
    /\ event # Idle
    /\ event.op = "handle_approve_plan"
    /\ \E i \in 1..Len(meal_plans) :
          /\ meal_plans[i].status = "active"
          /\ meal_plans[i].feedback_collected
          /\ meal_plans[i].id = "plan2"

\* The users whose family_members document says is_parent
Parents ==
    { FamilyMembers[i].slack_user_id :
        i \in { j \in 1..Len(FamilyMembers) : FamilyMembers[j].is_parent } }

\* The documents of a collection that take this status in the step
Becoming(before, after, status) ==
    { i \in 1..Len(after) :
        /\ after[i].status = status
        /\ i > Len(before) \/ before[i].status # status }

ApprovedCount ==
    Cardinality({ i \in 1..Len(recipe_collection) : recipe_collection[i].approved })

\* C17: a meal plan is generated and saved only when at least 7 approved
\* recipes exist: "/menu-plan new", the Regenerate button and the scheduled
\* weekly job create nothing when there are fewer.
C17_PlansNeedSevenRecipes ==
    [][Len(meal_plans') > Len(meal_plans) => ApprovedCount >= 7]_vars

\* What the code does: below 7 approved recipes only the Regenerate button
\* creates a plan, and it does so whenever there is an approved recipe.
C17_OnlyRegenerateBelowSeven ==
    [][Len(meal_plans') > Len(meal_plans) /\ ApprovedCount < 7 =>
          event'.op = "handle_regenerate_plan" /\ ApprovedCount >= 1]_vars

\* With six approved recipes the Regenerate button has stored a third plan.
C17_Witness ==
    /\ event # Idle
    /\ event.op = "handle_regenerate_plan"
    /\ ApprovedCount = 6
    /\ Len(meal_plans) = 3
    /\ meal_plans[3].status = "pending_approval"
    /\ Len(meal_plans[3].meals) = 1

-----------------------------------------------------------------------------
(* Properties of the plain-text rendering *)

\* The stores format_list_text walks through
RenderedStores == { store_order[i] : i \in 1..Len(store_order) }

\* The header lines a list of these items can get
HeaderLinesOf(items, store_id) == { HeaderLine(store_id, n) : n \in 0..Len(items) }

IsHeader(items, line) == \E store_id \in RenderedStores : line \in HeaderLinesOf(items, store_id)

\* The number of lines between header h and the blank line closing its block
BlockLength(lines, h) ==
    (CHOOSE j \in (h + 1)..Len(lines) :
        lines[j] = "" /\ \A m \in (h + 1)..(j - 1) : lines[m] # "") - h - 1

\* The line of the item stands as often as the list has items of that line.
RenderedOnce(items, lines, item) ==
    Cardinality({ k \in 1..Len(lines) : lines[k] = ItemLine(item) })
        = Cardinality({ i \in 1..Len(items) : ItemLine(items[i]) = ItemLine(item) })

\* The line of the item stands in the block opened by the header of its store.
UnderOwnHeader(items, lines, item) ==
    /\ item.store \in RenderedStores
    /\ \E h \in 1..Len(lines) :
          /\ lines[h] \in HeaderLinesOf(items, item.store)
          /\ \E k \in (h + 1)..(h + BlockLength(lines, h)) : lines[k] = ItemLine(item)

\* Headers stand in the order of store_order.
HeadersInStoreOrder(items, lines) ==
    \A h1, h2 \in 1..Len(lines), s1, s2 \in RenderedStores :
        /\ h1 < h2
        /\ lines[h1] \in HeaderLinesOf(items, s1)
        /\ lines[h2] \in HeaderLinesOf(items, s2)
        => StoreRank(s1) < StoreRank(s2)

\* Each header states the length of its block, and the block holds the
\* items of that store.
HeadersCount(items, lines) ==
    \A h \in 1..Len(lines), store_id \in RenderedStores :
        lines[h] \in HeaderLinesOf(items, store_id) =>
            /\ lines[h] = HeaderLine(store_id, BlockLength(lines, h))
            /\ BlockLength(lines, h)
                  = Cardinality({ i \in 1..Len(items) : items[i].store = store_id })

\* C18: format_list_text renders every item of the list exactly once, with
\* "[x]" when it is checked and "[ ]" otherwise, under the header of its
\* store; the headers stand in the order trader_joes, costco, buschs, meijer
\* and each states the number of items under it; the list is not modified,
\* so every call renders the same text.
C18_EveryItemRendered ==
    call.op = "format_list_text" =>
        LET items == call.list.items
            lines == call.ret
        IN /\ \A i \in 1..Len(items) :
                 /\ RenderedOnce(items, lines, items[i])
                 /\ UnderOwnHeader(items, lines, items[i])
           /\ HeadersInStoreOrder(items, lines)
           /\ HeadersCount(items, lines)
           /\ grocery_list = call.list
           /\ lines = format_list_text(grocery_list)

\* What the code does: the same, for the items of the four stores of
\* store_order; an item of any other store has no line at all.
C18_ItemsOfListedStoresRendered ==
    call.op = "format_list_text" =>
        LET items == call.list.items
            lines == call.ret
        IN /\ \A i \in 1..Len(items) :
                 IF items[i].store \in RenderedStores
                 THEN /\ RenderedOnce(items, lines, items[i])
                      /\ UnderOwnHeader(items, lines, items[i])
                 ELSE \A k \in 1..Len(lines) : lines[k] # ItemLine(items[i])
           /\ HeadersInStoreOrder(items, lines)
           /\ HeadersCount(items, lines)
           /\ grocery_list = call.list
           /\ lines = format_list_text(grocery_list)

\* A list with a ticked item and an item moved to "aldi" was rendered: two
\* blocks or more, a line with "[x]", and no line for the item of "aldi".
C18_Witness ==
    /\ call.op = "format_list_text"
    /\ \E i, j \in 1..Len(call.list.items) :
          /\ call.list.items[i].checked
          /\ call.list.items[i].store \in RenderedStores
          /\ \E k \in 1..Len(call.ret) : call.ret[k] = ItemLine(call.list.items[i])
          /\ call.list.items[j].store = "aldi"
          /\ \A k \in 1..Len(call.ret) : call.ret[k] # ItemLine(call.list.items[j])
    /\ Cardinality({ h \in 1..Len(call.ret) : IsHeader(call.list.items, call.ret[h]) }) >= 2

-----------------------------------------------------------------------------
(* Properties of the season lookup *)

\* The positions of the seasons whose month list contains the month
SeasonsListing(seasons, month) ==
    { i \in 1..Len(seasons) : InList(month, MonthsOf(seasons[i][2])) }

\* Every month 1..12 belongs to some season.
CoversYear(seasons) == \A month \in 1..12 : SeasonsListing(seasons, month) # {}

\* C19: get_current_season returns the first season, in configuration order,
\* whose month list contains the month of the date, and "winter" when no
\* season lists it; when every month belongs to some season, the result is
\* a season whose month list contains the month.
C19_FirstSeasonListingMonth ==
    call.op = "get_current_season" =>
        LET listing == SeasonsListing(call.seasons, call.date.month)
        IN /\ listing = {} => call.ret = "winter"
           /\ listing # {} =>
                 call.ret = call.seasons[CHOOSE i \in listing : \A j \in listing : i <= j][1]
           /\ CoversYear(call.seasons) =>
                 \E i \in listing : call.seasons[i][1] = call.ret

\* A month listed by two seasons was asked about, the later of them first in
\* the table, and the answer was that one.
C19_Witness ==
    /\ call.op = "get_current_season"
    /\ CoversYear(call.seasons)
    /\ Cardinality(SeasonsListing(call.seasons, call.date.month)) = 2
    /\ call.date.month = 6
    /\ call.seasons[1][1] = "winter"
    /\ call.ret = "summer"

-----------------------------------------------------------------------------
(* Properties of the recipes a list is generated from *)

\* The recipe ids of the entries of the plan handed to generate_grocery_list
EntryRecipeIds ==
    ListOf([i \in 1..Len(meal_plan.meals) |-> meal_plan.meals[i].recipe_id])

\* The ids of a list without the repetitions, in order of first occurrence
RECURSIVE DistinctIds(_)
DistinctIds(ids) ==
    IF ids = << >> THEN << >>
    ELSE LET front == DistinctIds(SubSeq(ids, 1, Len(ids) - 1))
         IN IF InList(ids[Len(ids)], front) THEN front ELSE Append(front, ids[Len(ids)])

\* The quantity of an item when the recipes counted are these
QuantityOver(recipes, item) ==
    FloatSum(Contributions(KeyedQuantities(recipes), <<item.name, item.unit>>))

\* C21: generate_grocery_list resolves the distinct recipe ids of the plan:
\* a recipe on two entries is counted once, and each item's quantity is the
\* sum over the distinct recipes of the plan.
C21_DistinctRecipesCounted ==
    grocery_list # NoDocument =>
        \A k \in 1..Len(grocery_list.items) :
            grocery_list.items[k].quantity
                = QuantityOver(get_recipes_by_ids(DistinctIds(EntryRecipeIds)),
                               grocery_list.items[k])

\* What the code does: one recipe is resolved for every entry whose recipe is
\* stored, a recipe on two entries twice, and each item's quantity is the sum
\* over the entries.
C21_EveryEntryCounted ==
    grocery_list # NoDocument =>
        /\ Len(ResolvedRecipes)
              = Cardinality({ i \in 1..Len(EntryRecipeIds) : EntryRecipeIds[i] \in RecipeIds })
        /\ \A k \in 1..Len(grocery_list.items) :
              grocery_list.items[k].quantity
                  = QuantityOver(ResolvedRecipes, grocery_list.items[k])

\* Spaghetti is on two entries of the plan, Tacos on one: the list asks for
\* 2 lb of pasta, twice the pound Spaghetti needs.
C21_Witness ==
    /\ grocery_list # NoDocument
    /\ EntryRecipeIds = <<"recipe1", "recipe2", "recipe1">>
    /\ \E k \in 1..Len(grocery_list.items) :
          /\ grocery_list.items[k].name = "pasta"
          /\ grocery_list.items[k].quantity = Float(64)

-----------------------------------------------------------------------------
(* Properties of the bulk routing *)

\* category_data.get("bulk_store")
BulkStoreOf(cfg, category) ==
    DictGet(DictGet(cfg.categories, category, << >>), "bulk_store", None)

\* C22: a meat or cheese item at or above its bulk threshold goes to the bulk
\* store configured for its category, and to "costco" only when the category
\* configures none.
C22_BulkStoreOfCategory ==
    /\ call.op = "_assign_store"
    /\ call.category \in {"meat", "cheese"}
    /\ BulkRuleApplies(call.cfg, call.category, call.quantity)
    => call.ret = (IF Truthy(BulkStoreOf(call.cfg, call.category))
                   THEN BulkStoreOf(call.cfg, call.category) ELSE "costco")

\* What the code does: meat and cheese at their thresholds go to "costco"
\* whatever the category configures; only pantry items at their threshold go
\* to the configured bulk store.
C22_MeatAndCheeseToCostco ==
    call.op = "_assign_store" /\ BulkRuleApplies(call.cfg, call.category, call.quantity) =>
        IF call.category = "pantry"
        THEN call.ret = (IF Truthy(BulkStoreOf(call.cfg, "pantry"))
                         THEN BulkStoreOf(call.cfg, "pantry") ELSE "costco")
        ELSE call.ret = "costco"

\* Three pounds of meat, the configured threshold, went to costco where the
\* category names buschs as its bulk store.
C22_Witness ==
    /\ call.op = "_assign_store"
    /\ call.category = "meat"
    /\ BulkStoreOf(call.cfg, "meat") = "buschs"
    /\ DictGet(DictGet(DictGet(call.cfg.stores, "costco", << >>), "bulk_thresholds", << >>),
               "meat_lbs", 64) = 96
    /\ call.quantity = Float(96)
    /\ call.ret = "costco"

-----------------------------------------------------------------------------
(* Properties of the modifier stripping *)

\* Whether the name begins with the i-th modifier as a word of its own
LeadsWith(name, i) ==
    /\ Len(name) > Len(modifiers[i])
    /\ SubSeq(name, 1, Len(modifiers[i]) + 1) = modifiers[i] \o " "

\* The name without the modifiers that are its leading words
RECURSIVE StripLeading(_)
StripLeading(name) ==
    IF \E i \in 1..Len(modifiers) : LeadsWith(name, i)
    THEN LET i == CHOOSE i \in 1..Len(modifiers) : LeadsWith(name, i)
         IN StripLeading(SubSeq(name, Len(modifiers[i]) + 2, Len(name)))
    ELSE name

\* C23: _normalize_ingredient_name removes a modifier only where it is a
\* leading word of the lowercased, trimmed name; a modifier after another
\* word, or at the tail of a longer word, stays; the substitution of synonyms
\* and plurals follows the stripping.
C23_OnlyLeadingModifiers ==
    call.op = "_normalize_ingredient_name" =>
        call.ret = Strip(ApplyNormalizations(StripLeading(Strip(Lower(call.name))), 1))

\* What the code does: every occurrence of a modifier followed by a space is
\* removed, wherever it stands, and then the substitution is applied.
C23_ModifiersRemovedAnywhere ==
    call.op = "_normalize_ingredient_name" =>
        /\ call.name = "extra large eggs" => call.ret = "extra egg"
        /\ call.name = "unripe tomato" => call.ret = "untomato"
        /\ call.name = "fresh dried basil" => call.ret = "basil"
        /\ call.name = "Fresh Tomatoes" => call.ret = "tomato"
        /\ call.name = "ground" => call.ret = "ground"
        /\ RemoveModifiers(Strip(Lower(call.name)), 1) = StripLeading(Strip(Lower(call.name)))
              => call.ret = Strip(ApplyNormalizations(StripLeading(Strip(Lower(call.name))), 1))

\* "unripe tomato" came back as "untomato".
C23_Witness ==
    /\ call.op = "_normalize_ingredient_name"
    /\ call.name = "unripe tomato"
    /\ call.ret = "untomato"

-----------------------------------------------------------------------------
(* Properties of the seasonal bonus *)

\* Whether a seasonal ingredient of a recipe matches a peak-produce name when
\* matching is by substring, letter case aside
MatchesBySubstring(ingredient, peak_produce_names) ==
    \E i \in 1..Len(peak_produce_names) :
        \/ Contains(Lower(peak_produce_names[i]), Lower(ingredient))
        \/ Contains(Lower(ingredient), Lower(peak_produce_names[i]))

\* Whether it matches when matching is equality, letter case aside
MatchesExactly(ingredient, peak_produce_names) ==
    \E i \in 1..Len(peak_produce_names) : Lower(peak_produce_names[i]) = Lower(ingredient)

\* The score of a recipe without its seasonal bonus
ScoreBesideSeason(recipe, scores, preferred_meal_ids) ==
    DictGet(scores, recipe.id, 120) + 6 * recipe.kid_friendly_score + 2 * recipe.health_score
        + (IF InList(recipe.id, preferred_meal_ids) THEN 40 ELSE 0)

\* C24: the seasonal bonus of a ranked recipe is 0.3 for each of its
\* ingredients whose name matches a peak-produce name by case-insensitive
\* substring match, and what is added to the score is that sum capped at 1.0.
C24_BonusPerSubstringMatch ==
    plan_call # Idle /\ plan_call.op = "_rank_recipes" =>
        \A k \in 1..Len(plan_call.ret) :
            LET recipe == plan_call.ret[k][1]
                matches == Cardinality({ i \in 1..Len(recipe.seasonal_ingredients) :
                               MatchesBySubstring(recipe.seasonal_ingredients[i],
                                                  plan_call.peak_produce_names) })
            IN plan_call.ret[k][2]
                  = ScoreBesideSeason(recipe, plan_call.scores, plan_call.preferred_meal_ids)
                    + SeasonalBonus(matches)

\* What the code does: an ingredient counts when its lowercased name is equal
\* to a lowercased peak-produce name; the sum is capped at 1.0, which four
\* matches reach.
C24_BonusPerExactMatch ==
    plan_call # Idle /\ plan_call.op = "_rank_recipes" =>
        \A k \in 1..Len(plan_call.ret) :
            LET recipe == plan_call.ret[k][1]
                matches == Cardinality({ i \in 1..Len(recipe.seasonal_ingredients) :
                               MatchesExactly(recipe.seasonal_ingredients[i],
                                              plan_call.peak_produce_names) })
                bonus == plan_call.ret[k][2]
                           - ScoreBesideSeason(recipe, plan_call.scores,
                                               plan_call.preferred_meal_ids)
            IN /\ bonus = SeasonalBonus(matches)
               /\ bonus <= 40
               /\ matches = 1 => bonus = 12
               /\ matches >= 4 => bonus = 40

\* Chili's four seasonal ingredients are all at their peak by name, and the
\* bonus added is 1.0.
C24_CapReached ==
    /\ plan_call # Idle
    /\ plan_call.op = "_rank_recipes"
    /\ \E k \in 1..Len(plan_call.ret) :
          /\ plan_call.ret[k][1].id = "recipe3"
          /\ \A i \in 1..4 : MatchesExactly(plan_call.ret[k][1].seasonal_ingredients[i],
                                             plan_call.peak_produce_names)
          /\ plan_call.ret[k][2]
                = ScoreBesideSeason(plan_call.ret[k][1], plan_call.scores,
                                    plan_call.preferred_meal_ids) + 40

\* Winter squash, kale, apples and onions are at their peak: Chili, with
\* onions, kale, squash and apples, got the bonus of three matches, the
\* squash not counted.
C24_Witness ==
    /\ plan_call # Idle
    /\ plan_call.op = "_rank_recipes"
    /\ plan_call.peak_produce_names = <<"Kale", "Apples", "onions", "Winter Squash">>
    /\ \E k \in 1..Len(plan_call.ret) :
          /\ plan_call.ret[k][1].id = "recipe3"
          /\ plan_call.ret[k][2]
                = ScoreBesideSeason(plan_call.ret[k][1], plan_call.scores,
                                    plan_call.preferred_meal_ids) + SeasonalBonus(3)

-----------------------------------------------------------------------------
(* Properties of the default week *)

\* C25: when week_start is omitted, generate_weekly_plan plans from the first
\* Monday strictly after today: a Monday 1 to 7 days after today, and 7 days
\* after today when today is a Monday.
C25_NextMondayAfterToday ==
    /\ plan_call # Idle
    /\ plan_call.op = "generate_weekly_plan"
    /\ ~plan_call.week_start_given
    => /\ plan_call.ret.week_start % 7 = 0
       /\ plan_call.ret.week_start - today \in 1..7
       /\ today % 7 = 0 => plan_call.ret.week_start = today + 7
       /\ \A k \in 1..Len(plan_call.ret.meals) :
             plan_call.ret.meals[k].date >= plan_call.ret.week_start

\* Called on a Monday without week_start, the plan begins the Monday after,
\* and its first entry is of that day.
C25_Witness ==
    /\ plan_call # Idle
    /\ plan_call.op = "generate_weekly_plan"
    /\ ~plan_call.week_start_given
    /\ today % 7 = 0
    /\ plan_call.ret.week_start = today + 7
    /\ plan_call.ret.meals # << >>
    /\ plan_call.ret.meals[1].date = today + 7

-----------------------------------------------------------------------------
(* Properties of overlapping swaps *)

\* The recipe a plan has on a day
RecipeOn(plan, day) == plan.meals[MealIndex(plan, day)].recipe_id

\* Both swap submissions have run to their end.
BothSwapsDone == \A r \in 1..Len(requests) : requests[r].pc = "done"

\* C26: swap submissions for the same plan are serialized: when two of them,
\* for different days, interleave, the plan stored after both holds both
\* replacements.
C26_BothReplacementsStored ==
    BothSwapsDone =>
        \A r \in 1..Len(requests) :
            RecipeOn(meal_plans[1], requests[r].day_to_swap)
                = RecipeOn(requests[r].updated_plan, requests[r].day_to_swap)

\* What the code does: the stored plan is the plan one of the two runs saved,
\* whole; it holds both replacements when the run that saved last had read
\* the plan the other one saved.
C26_LastSaveWins ==
    BothSwapsDone =>
        /\ \E r \in 1..Len(requests) : meal_plans[1] = requests[r].updated_plan
        /\ \A r, q \in 1..Len(requests) :
              requests[q].plan = requests[r].updated_plan =>
                  /\ meal_plans[1] = requests[q].updated_plan
                  /\ RecipeOn(meal_plans[1], requests[r].day_to_swap)
                        = RecipeOn(requests[r].updated_plan, requests[r].day_to_swap)

\* Both runs read the plan before either saved: Monday's run put another
\* recipe on Monday, and the plan stored at the end has Spaghetti on Monday
\* again, with Tuesday replaced.
C26_Witness ==
    /\ BothSwapsDone
    /\ requests[1].day_to_swap = "Monday"
    /\ requests[2].day_to_swap = "Tuesday"
    /\ requests[1].plan = requests[2].plan
    /\ RecipeOn(requests[1].updated_plan, "Monday") # "recipe1"
    /\ RecipeOn(meal_plans[1], "Monday") = "recipe1"
    /\ RecipeOn(meal_plans[1], "Tuesday") # "recipe2"

-----------------------------------------------------------------------------
(* Properties of the day labels of a plan *)

\* The name of the weekday of a date
WeekdayName(date) == day_names[(date % 7) + 1]

\* C27 (as claimed): in every plan returned by generate_weekly_plan, for any
\* week_start passed in, each entry's day_of_week is the weekday of the
\* entry's date.
C27_LabelIsWeekdayOfDate ==
    plan_call.op = "generate_weekly_plan" =>
        \A a \in 1..Len(plan_call.ret.meals) :
            plan_call.ret.meals[a].day_of_week = WeekdayName(plan_call.ret.meals[a].date)

\* C27 (as the code does): each entry's day_of_week is the name at the offset
\* of its date from week_start, Monday at offset 0; it is the weekday of the
\* date whenever week_start is a Monday.
C27_LabelIsOffsetFromWeekStart ==
    plan_call.op = "generate_weekly_plan" =>
        LET meals == plan_call.ret.meals
            week_start == plan_call.ret.week_start
        IN /\ \A a \in 1..Len(meals) :
                 meals[a].day_of_week = day_names[((meals[a].date - week_start) % 7) + 1]
           /\ week_start % 7 = 0 =>
                 \A a \in 1..Len(meals) :
                     meals[a].day_of_week = WeekdayName(meals[a].date)

\* A plan for a week_start that was passed in and is a Saturday: its first
\* entry is on that Saturday and is labelled Monday
C27_Witness ==
    /\ plan_call.op = "generate_weekly_plan"
    /\ plan_call.week_start_given
    /\ plan_call.ret.week_start % 7 = 5
    /\ Len(plan_call.ret.meals) = MaxDays
    /\ plan_call.ret.meals[1].date = plan_call.ret.week_start
    /\ plan_call.ret.meals[1].day_of_week = "Monday"

-----------------------------------------------------------------------------
(* Properties of regenerate_meal on the plans it returned *)

\* Whether no recipe id is in two entries of a plan
PairwiseDistinct(plan) ==
    \A a, b \in 1..Len(plan.meals) :
        plan.meals[a].recipe_id = plan.meals[b].recipe_id => a = b

\* C28: the recipe regenerate_meal puts on the target day is in no entry of
\* the plan it was handed and is not recently used; a plan that came from
\* generate_weekly_plan has pairwise distinct recipe ids after every call of
\* regenerate_meal made on it.
C28_ReplacementIsNew ==
    /\ plan_call.op = "regenerate_meal" /\ plan_call.new_recipe # NoRecipe =>
          /\ \A i \in 1..Len(plan_call.meal_plan.meals) :
                plan_call.meal_plan.meals[i].recipe_id # plan_call.new_recipe.id
          /\ plan_call.new_recipe.id \notin plan_call.recently_used
          /\ plan_call.ret.meals[plan_call.meal_index].recipe_id = plan_call.new_recipe.id
    /\ plan_call.op \in {"generate_weekly_plan", "regenerate_meal"} =>
          PairwiseDistinct(plan_call.ret)

\* The second call on a plan of two entries replaced an entry, and a recipe
\* that was recently used was not chosen although it is approved
C28_Witness ==
    /\ plan_call.op = "regenerate_meal"
    /\ plan_call.calls = MaxCalls
    /\ Len(plan_call.meal_plan.meals) = 2
    /\ plan_call.new_recipe # NoRecipe
    /\ plan_call.recently_used # {}
    /\ plan_call.ret # plan_call.meal_plan

-----------------------------------------------------------------------------
(* Properties of a plan regenerated before approval *)

\* The stored plans whose week_start is within the repeat buffer
RecentIndexes == { i \in 1..Len(meal_plans) :
                     meal_plans[i].week_start >= today - meal_repeat_buffer_days }

\* The approved recipes that are in no plan within the repeat buffer
NotRecentlyUsed ==
    { i \in 1..Len(get_all_recipes(TRUE)) :
        \A p \in RecentIndexes : \A m \in 1..Len(meal_plans[p].meals) :
            meal_plans[p].meals[m].recipe_id # get_all_recipes(TRUE)[i].id }

\* Whether this step is handle_regenerate_plan saving a new plan
RegenerateSaves ==
    /\ event'.op = "handle_regenerate_plan"
    /\ Len(meal_plans') = Len(meal_plans) + 1

\* C29 (as claimed): when at least 7 recipes are approved and the one plan
\* stored within the last 14 days is the plan generated before, never
\* approved, the plan that Regenerate saves has 7 entries.
C29_RegeneratedPlanHasSevenEntries ==
    [][ ( /\ RegenerateSaves
          /\ Len(get_all_recipes(TRUE)) >= 7
          /\ Cardinality(RecentIndexes) = 1
          /\ \A p \in RecentIndexes : meal_plans[p].status = "pending_approval" )
        => Len(meal_plans'[Len(meal_plans')].meals) = 7 ]_vars

\* C29 (as the code does): the plan that Regenerate saves has no recipe of a
\* plan stored within the repeat buffer, approved or not, and as many entries
\* as there are approved recipes in none of those plans, at most 7.
C29_PendingPlanBlocks ==
    [][ RegenerateSaves =>
          LET new_plan == meal_plans'[Len(meal_plans')]
          IN /\ \A p \in RecentIndexes :
                   UsedIds(new_plan) \cap UsedIds(meal_plans[p]) = {}
             /\ Len(new_plan.meals) = Min(7, Cardinality(NotRecentlyUsed)) ]_vars

\* Seven recipes are approved; the plan of "/menu-plan new" has seven
\* entries and awaits approval; Regenerate saved a plan without entries
C29_Witness ==
    /\ event.op = "handle_regenerate_plan"
    /\ Len(get_all_recipes(TRUE)) = 7
    /\ Len(meal_plans) = 2
    /\ meal_plans[1].status = "pending_approval"
    /\ Len(meal_plans[1].meals) = 7
    /\ meal_plans[2].meals = << >>

-----------------------------------------------------------------------------
(* Properties of overlapping grocery generations *)

\* The stored lists of a plan
ListsOfPlan(plan_id) ==
    { i \in 1..Len(grocery_lists) : grocery_lists[i].meal_plan_id = plan_id }

\* C30 (as claimed): under any interleaving of grocery-generation requests,
\* at most one grocery list is stored for a meal plan.
C30_OneListPerPlan ==
    \A p \in 1..Len(meal_plans) : Cardinality(ListsOfPlan(meal_plans[p].id)) <= 1

\* C30 (as the code does): a run saves a list when no list of the plan was
\* stored at the time of its check; the lists of a plan are as many as the
\* runs that checked before any list of the plan was saved.
C30_SavedAfterEmptyCheck ==
    [][ \A r \in 1..Len(requests) :
          /\ (requests[r].pc = "planned" /\ requests'[r].pc = "checked")
                => ListsOfPlan(requests[r].plan.id) = {}
          /\ (requests[r].pc = "planned" /\ ListsOfPlan(requests[r].plan.id) # {})
                => requests'[r].pc # "checked"
          /\ (requests[r].pc = "checked" /\ requests'[r].pc = "done")
                => Cardinality(ListsOfPlan(requests[r].plan.id)) + 1
                      = Cardinality({ i \in 1..Len(grocery_lists') :
                                        grocery_lists'[i].meal_plan_id = requests[r].plan.id })
    ]_vars

\* The command and the cloud function both checked before either saved: two
\* lists of plan1 are stored
C30_Witness ==
    /\ Len(requests) = 2
    /\ requests[1].op = "_generate_grocery_list"
    /\ requests[2].op = "grocery_generator"
    /\ \A r \in 1..2 : requests[r].pc = "done"
    /\ Cardinality(ListsOfPlan("plan1")) = 2

====
